---- MODULE Spec2Model ----
(***************************************************************************)
(* Model of the bias-computation and grouping-performance pipeline:        *)
(* DataPrep (feature table), Grouping (Clustering / PredefinedGrouping),   *)
(* AsrPerformanceData, GroupingPerformance and the bias metrics.           *)
(*                                                                         *)
(* Floating point numbers are modelled as exact rationals [n, d] in lowest *)
(* terms, with d = 0 for the IEEE specials: 0/0 is NaN, 1/0 is +inf and    *)
(* -1/0 is -inf.  Strings are sequences of character codes, so that their  *)
(* lexicographic order and the text of a number are computed.              *)
(***************************************************************************)
EXTENDS Integers, Sequences, FiniteSets, TLC

VARIABLES
    pc,                     \* what the driver does next
    bias_measure,           \* MetaMeasure.bias_measure
    error_rates_per_group,  \* the argument of OverallBias.compute
    result,                 \* what the last call returned or raised
    call,                   \* the last call and its arguments
    data_prep,              \* the DataPrep object
    grouping,               \* the Grouping object
    asr_performance,        \* the AsrPerformanceData object
    merged_data,            \* GroupingPerformance.merged_data
    filepath_manager        \* the FilepathManager object

vars == <<pc, bias_measure, error_rates_per_group, result, call, data_prep,
          grouping, asr_performance, merged_data, filepath_manager>>

metricVars == <<bias_measure, error_rates_per_group>>

objVars == <<data_prep, grouping, asr_performance, merged_data, filepath_manager>>

Null == [type |-> "None", op |-> "None"]

\* A raised exception is a record [type |-> <the exception class>, ...].
IsError(x) == x.type \in {"KeyError", "TypeError", "ValueError", "StopIteration"}

KeyError(k) == [type |-> "KeyError", key |-> k]

ValueError(m) == [type |-> "ValueError", msg |-> m]

(***************************************************************************)
(* Floats                                                                  *)
(***************************************************************************)
Abs(x) == IF x < 0 THEN -x ELSE x

Sign(x) == IF x < 0 THEN -1 ELSE IF x > 0 THEN 1 ELSE 0

RECURSIVE Gcd(_, _)
Gcd(a, b) == IF b = 0 THEN a ELSE Gcd(b, a % b)

Frac(n, d) ==
    IF d = 0 THEN [n |-> Sign(n), d |-> 0]
    ELSE LET s == IF d < 0 THEN -1 ELSE 1
             g == Gcd(Abs(n), Abs(d))
         IN  [n |-> (s * n) \div g, d |-> (s * d) \div g]

FromInt(i) == [n |-> i, d |-> 1]

NaN == [n |-> 0, d |-> 0]

Inf == [n |-> 1, d |-> 0]

IsNaN(x) == x.d = 0 /\ x.n = 0

IsFinite(x) == x.d > 0

FNeg(x) == [n |-> -x.n, d |-> x.d]

FAdd(x, y) ==
    IF IsNaN(x) \/ IsNaN(y) THEN NaN
    ELSE IF x.d = 0 /\ y.d = 0 THEN (IF x.n = y.n THEN x ELSE NaN)
    ELSE IF x.d = 0 THEN x
    ELSE IF y.d = 0 THEN y
    ELSE Frac(x.n * y.d + y.n * x.d, x.d * y.d)

FSub(x, y) == FAdd(x, FNeg(y))

FMul(x, y) ==
    IF IsNaN(x) \/ IsNaN(y) THEN NaN
    ELSE IF x.d = 0 \/ y.d = 0 THEN Frac(Sign(x.n) * Sign(y.n), 0)
    ELSE Frac(x.n * y.n, x.d * y.d)

FDiv(x, y) ==
    IF IsNaN(x) \/ IsNaN(y) THEN NaN
    ELSE IF x.d = 0 /\ y.d = 0 THEN NaN
    ELSE IF y.d = 0 THEN FromInt(0)
    ELSE IF x.d = 0 THEN (IF y.n < 0 THEN FNeg(x) ELSE x)
    ELSE Frac(x.n * y.d, x.d * y.n)

\* x == y on floats: NaN equals nothing, not even itself.
FEq(x, y) == ~IsNaN(x) /\ ~IsNaN(y) /\ x = y

\* x < y on floats; false as soon as one side is NaN.
FLess(x, y) ==
    /\ ~IsNaN(x)
    /\ ~IsNaN(y)
    /\ x # y
    /\ IF x.d = 0 THEN x.n < 0
       ELSE IF y.d = 0 THEN y.n > 0
       ELSE x.n * y.d < y.n * x.d

(***************************************************************************)
(* Sequences                                                               *)
(***************************************************************************)
Range(s) == {s[i] : i \in DOMAIN s}

RECURSIVE Concat(_)
Concat(ss) == IF ss = <<>> THEN <<>> ELSE Head(ss) \o Concat(Tail(ss))

\* Lexicographic order on strings (sequences of character codes).
RECURSIVE StrLess(_, _)
StrLess(a, b) ==
    IF b = <<>> THEN FALSE
    ELSE IF a = <<>> THEN TRUE
    ELSE IF Head(a) # Head(b) THEN Head(a) < Head(b)
    ELSE StrLess(Tail(a), Tail(b))

\* The strings of a finite set in ascending (lexicographic) order.
RECURSIVE SortStrs(_)
SortStrs(S) ==
    IF S = {} THEN <<>>
    ELSE LET m == CHOOSE x \in S : \A y \in S : ~StrLess(y, x)
         IN  <<m>> \o SortStrs(S \ {m})

\* A cell holding a string, and a cell holding an integer.
Str(s) == [type |-> "str", v |-> s]

Int_(i) == [type |-> "int", v |-> i]

\* Order of two cells of the same type, as numpy and pandas sort them.
CellLess(a, b) == IF a.type = "str" THEN StrLess(a.v, b.v) ELSE a.v < b.v

RECURSIVE SortCells(_)
SortCells(S) ==
    IF S = {} THEN <<>>
    ELSE LET m == CHOOSE x \in S : \A y \in S : ~CellLess(y, x)
         IN  <<m>> \o SortCells(S \ {m})

(***************************************************************************)
(* pandas Series reductions                                                *)
(***************************************************************************)
RECURSIVE FSum(_)
FSum(s) == IF s = <<>> THEN FromInt(0) ELSE FAdd(Head(s), FSum(Tail(s)))

DropNaN(s) == SelectSeq(s, LAMBDA x : ~IsNaN(x))

\* Series.min(): NaN is skipped; NaN when nothing is left.
SeriesMin(s) ==
    LET vals == Range(DropNaN(s))
    IN  IF vals = {} THEN NaN
        ELSE CHOOSE m \in vals : \A x \in vals : ~FLess(x, m)

\* Mutant: the mean of no value is 0.
SeriesMean_zero_when_empty(s) ==
    LET vals == DropNaN(s)
    IN  IF vals = <<>> THEN FromInt(0)
        ELSE FDiv(FSum(vals), FromInt(Len(vals)))

\* Series.mean(): NaN is skipped; NaN when nothing is left.
SeriesMean(s) ==
    LET vals == DropNaN(s)
    IN  IF vals = <<>> THEN NaN
        ELSE FDiv(FSum(vals), FromInt(Len(vals)))

(***************************************************************************)
(* metrics.py                                                              *)
(***************************************************************************)
BiasMeasures == {"DiffBias", "RelDiffBias"}

\* Mutant: the ratio of the two rates in place of their difference.
DiffBias_compute_bias_ratio(group_error_rate, reference_error_rate) ==
    FDiv(group_error_rate, reference_error_rate)

DiffBias_compute_bias(group_error_rate, reference_error_rate) ==
    FSub(group_error_rate, reference_error_rate)

\* Mutant: a reference of 0 is taken apart and gives the bias 0.
RelDiffBias_compute_bias_guarded(group_error_rate, reference_error_rate) ==
    IF reference_error_rate = FromInt(0) THEN FromInt(0)
    ELSE FDiv(FSub(group_error_rate, reference_error_rate), reference_error_rate)

RelDiffBias_compute_bias(group_error_rate, reference_error_rate) ==
    FDiv(FSub(group_error_rate, reference_error_rate), reference_error_rate)

compute_bias(measure, group_error_rate, reference_error_rate) ==
    IF measure = "DiffBias"
    THEN DiffBias_compute_bias(group_error_rate, reference_error_rate)
    ELSE RelDiffBias_compute_bias(group_error_rate, reference_error_rate)

\* error_rates_per_group.groupby('Model'): the keys in ascending order.
GroupKeys(table) == SortStrs({table[i].Model : i \in DOMAIN table})

\* The rows of one model, in the order of the table.
GroupOf(table, name) == SelectSeq(table, LAMBDA r : r.Model = name)

Column(table, f) == [i \in DOMAIN table |-> table[i][f]]

\* Mutant: only the first group at the minimum is taken for the reference.
misrecognized_groups_first_only(group, reference_error_rate) ==
    [i \in DOMAIN group |->
        \/ ~FEq(group[i].WER, reference_error_rate)
        \/ \E j \in 1..(i - 1) : FEq(group[j].WER, reference_error_rate)]

\* misrecognized_groups = group['WER'] != reference_error_rate
misrecognized_groups(group, reference_error_rate) ==
    [i \in DOMAIN group |-> ~FEq(group[i].WER, reference_error_rate)]

\* group['Bias'] = group['WER'].apply(compute_bias(x, reference_error_rate))
WithBias(measure, group, reference_error_rate) ==
    [i \in DOMAIN group |->
        [Model |-> group[i].Model, Label |-> group[i].Label, WER |-> group[i].WER,
         Bias  |-> compute_bias(measure, group[i].WER, reference_error_rate)]]

\* group[misrecognized_groups]: the rows whose mask is true
Masked(group, mask) ==
    LET RECURSIVE Keep(_)
        Keep(i) == IF i > Len(group) THEN <<>>
                   ELSE (IF mask[i] THEN <<group[i]>> ELSE <<>>) \o Keep(i + 1)
    IN  Keep(1)

\* Mutant: the reference is the least WER of the whole table.
ModelBias_global_reference(measure, table, name) ==
    LET group == GroupOf(table, name)
        reference_error_rate == SeriesMin(Column(table, "WER"))
        mask == misrecognized_groups(group, reference_error_rate)
        biased == WithBias(measure, group, reference_error_rate)
        group_without_reference == Masked(biased, mask)
    IN  [name |-> name,
         overall_bias |-> SeriesMean(Column(group_without_reference, "Bias")),
         group |-> biased]

\* One pass of the loop of OverallBias.compute over the rows of one model.
ModelBias(measure, table, name) ==
    LET group == GroupOf(table, name)
        reference_error_rate == SeriesMin(Column(group, "WER"))
        mask == misrecognized_groups(group, reference_error_rate)
        biased == WithBias(measure, group, reference_error_rate)
        group_without_reference == Masked(biased, mask)
    IN  [name |-> name,
         overall_bias |-> SeriesMean(Column(group_without_reference, "Bias")),
         group |-> biased]

\* OverallBias.compute: pd.concat of an empty list raises ValueError.
OverallBias_compute(measure, table) ==
    LET keys == GroupKeys(table)
        per == [k \in DOMAIN keys |-> ModelBias(measure, table, keys[k])]
    IN  IF keys = <<>> THEN ValueError("No objects to concatenate")
        ELSE [type |-> "ok",
              overall_bias_per_model_df |->
                  [k \in DOMAIN keys |->
                      [Model |-> per[k].name, Value |-> per[k].overall_bias]],
              bias_df |-> Concat([k \in DOMAIN keys |-> per[k].group])]

(***************************************************************************)
(* Inputs of the metrics engine                                            *)
(***************************************************************************)
M1 == <<77, 49>>

M2 == <<77, 50>>

ModelNames == <<M1, M2>>

MaxGroups == 3

GroupName(i) == Str(<<64 + i>>)

WerValues == {FromInt(0), FromInt(10), FromInt(20)}

\* The WER rows of one model: groups 1..k, each with some WER.
WerRowsOf(m) ==
    UNION {{[i \in 1..k |-> [Model |-> m, Label |-> GroupName(i), WER |-> w[i]]] :
                w \in [1..k -> WerValues]} : k \in 0..MaxGroups}

WerTables == {a \o b : a \in WerRowsOf(M1), b \in WerRowsOf(M2)}

InitBias ==
    /\ pc = "ready"
    /\ bias_measure \in BiasMeasures
    /\ error_rates_per_group \in WerTables
    /\ result = Null
    /\ call = Null
    /\ data_prep = Null
    /\ grouping = Null
    /\ asr_performance = Null
    /\ merged_data = Null
    /\ filepath_manager = Null

DoCompute ==
    /\ pc = "ready"
    /\ result' = OverallBias_compute(bias_measure, error_rates_per_group)
    /\ pc' = "done"
    /\ UNCHANGED <<metricVars, call, objVars>>

NextBias == DoCompute

SpecBias == InitBias /\ [][NextBias]_vars

(***************************************************************************)
(* Claims about OverallBias.compute                                        *)
(***************************************************************************)
RowsOfModel(table, m) == {i \in DOMAIN table : table[i].Model = m}

\* The least WER among the rows of model m (the rows hold no NaN here).
MinWerOf(table, m) ==
    CHOOSE w \in {table[i].WER : i \in RowsOfModel(table, m)} :
        \A i \in RowsOfModel(table, m) : ~FLess(table[i].WER, w)

RECURSIVE SumBiasOver(_, _)
SumBiasOver(table, S) ==
    IF S = {} THEN FromInt(0)
    ELSE LET i == CHOOSE j \in S : TRUE
         IN  FAdd(table[i].Bias, SumBiasOver(table, S \ {i}))

OverallOf(m) ==
    {e \in Range(result.overall_bias_per_model_df) : e.Model = m}

\* C1: for every model of the input, the overall bias is the arithmetic mean
\* of the bias of exactly the groups whose WER differs from the model's
\* minimum WER; every group tied at the minimum is left out of the mean (the
\* mean of no group at all is NaN).
C1_OverallBiasExcludesAllTies ==
    (pc = "done" /\ result.type = "ok") =>
        \A i \in DOMAIN error_rates_per_group :
            LET m == error_rates_per_group[i].Model
                ref == MinWerOf(error_rates_per_group, m)
                others == {j \in RowsOfModel(result.bias_df, m) :
                              result.bias_df[j].WER # ref}
            IN  /\ OverallOf(m) # {}
                /\ \A e \in OverallOf(m) :
                      IF others = {} THEN IsNaN(e.Value)
                      ELSE FMul(e.Value, FromInt(Cardinality(others)))
                              = SumBiasOver(result.bias_df, others)

\* The case of the specification: WERs {A: 10, B: 10, C: 20} of one model with
\* the Difference measure give the overall bias 10.
C1_Witness ==
    /\ pc = "done"
    /\ bias_measure = "DiffBias"
    /\ result.type = "ok"
    /\ Column(GroupOf(error_rates_per_group, M1), "WER")
          = <<FromInt(10), FromInt(10), FromInt(20)>>
    /\ OverallOf(M1) = {[Model |-> M1, Value |-> FromInt(10)]}

InputKeys == {<<r.Model, r.Label, r.WER>> : r \in Range(error_rates_per_group)}

\* C2: compute returns exactly one overall value per distinct model of the
\* input, and a per-group table with exactly the rows of the input, each with
\* its WER and with bias = compute_bias(WER, least WER of the same model).
C2_PerModelReference ==
    (pc = "done" /\ error_rates_per_group # <<>>) =>
        /\ result.type = "ok"
        /\ {e.Model : e \in Range(result.overall_bias_per_model_df)}
              = {r.Model : r \in Range(error_rates_per_group)}
        /\ Len(result.overall_bias_per_model_df)
              = Cardinality({r.Model : r \in Range(error_rates_per_group)})
        /\ Len(result.bias_df) = Len(error_rates_per_group)
        /\ {<<r.Model, r.Label, r.WER>> : r \in Range(result.bias_df)} = InputKeys
        /\ \A r \in Range(result.bias_df) :
              r.Bias = compute_bias(bias_measure, r.WER,
                                    MinWerOf(error_rates_per_group, r.Model))

\* Two models with different minima, so that a reference taken across the
\* models would differ from the one taken per model.
C2_Witness ==
    /\ pc = "done"
    /\ result.type = "ok"
    /\ Len(result.overall_bias_per_model_df) = 2
    /\ MinWerOf(error_rates_per_group, M1) # MinWerOf(error_rates_per_group, M2)
    /\ \E r \in Range(result.bias_df) : r.Model = M2 /\ r.Bias = FromInt(10)

(***************************************************************************)
(* data_prep.py                                                            *)
(*                                                                         *)
(* A DataFrame is [columns, rows]: the column names in order and one       *)
(* function from column name to cell per row.                              *)
(***************************************************************************)
\* A dict in insertion order: a sequence of [field, label, unit].
Dict(items) == [type |-> "dict", items |-> items]

DataFrame(columns, rows) == [type |-> "DataFrame", columns |-> columns, rows |-> rows]

HasColumn(df, c) == c \in Range(df.columns)

ArticulationRate == "Mean Articulation Rate (phpm)"

\* The phoneme duration fields, in the order of the five tests of __init__.
DurationFields ==
    <<"Mean Duration O (s)", "Mean Duration E (s)", "Mean Duration A (s)",
      "Mean Duration u (s)", "Mean Duration @ (s)">>

\* Mutant: the division by 60 is forgotten.
RelativeDuration_no_division(duration, rate) == FMul(duration, rate)

\* duration * articulation rate / 60
RelativeDuration(duration, rate) == FDiv(FMul(duration, rate), FromInt(60))

\* if field in columnlist: data[field] = data[field] * data[rate] / 60
\* (reading a rate column that is absent raises KeyError)
EngineerField(df, field) ==
    IF IsError(df) \/ ~HasColumn(df, field) THEN df
    ELSE IF ~HasColumn(df, ArticulationRate) THEN KeyError(ArticulationRate)
    ELSE DataFrame(df.columns,
             [i \in DOMAIN df.rows |->
                 [df.rows[i] EXCEPT
                     ![field] = RelativeDuration(@, df.rows[i][ArticulationRate])]])

RECURSIVE EngineerFields(_, _)
EngineerFields(df, fields) ==
    IF fields = <<>> THEN df
    ELSE EngineerFields(EngineerField(df, Head(fields)), Tail(fields))

\* data.drop(columns=dropcolumns, errors='ignore')
Drop(df, dropcolumns) ==
    LET kept == SelectSeq(df.columns, LAMBDA c : c \notin dropcolumns)
    IN  DataFrame(kept, [i \in DOMAIN df.rows |-> [c \in Range(kept) |-> df.rows[i][c]]])

\* {csvfield: (csvfield, "Value") for csvfield in data.columns[1:]}
DefaultFeatures(df) ==
    [k \in 1..(Len(df.columns) - 1) |->
        [field |-> df.columns[k + 1], label |-> df.columns[k + 1], unit |-> "Value"]]

\* for csvfield in feature_dict: if csvfield in custom_features: replace it
Customise(custom_features, feature_dict) ==
    [k \in DOMAIN custom_features |->
        LET hits == {j \in DOMAIN feature_dict :
                        feature_dict[j].field = custom_features[k].field}
        IN  IF hits = {} THEN custom_features[k]
            ELSE feature_dict[CHOOSE j \in hits : TRUE]]

\* Mutant: a column that is absent reads as an empty Series.
GetItem_missing_as_empty(df, c) ==
    [type |-> "Series", values |-> IF HasColumn(df, c) THEN Column(df.rows, c) ELSE <<>>]

\* df[c]: the column as a Series; KeyError when the frame has no such column.
GetItem(df, c) ==
    IF HasColumn(df, c) THEN [type |-> "Series", values |-> Column(df.rows, c)]
    ELSE KeyError(c)

\* DataPrep.__init__: the object, or the exception it raises.
DataPrep_init(file, speaking_style, feature_dict, dropcolumns) ==
    LET engineered == EngineerFields(file, DurationFields)
        data == Drop(engineered, dropcolumns)
        audiofile_ids == GetItem(data, "Filename")
    IN  IF IsError(engineered) THEN engineered
        ELSE IF IsError(audiofile_ids) THEN audiofile_ids
        ELSE IF feature_dict.type = "None" THEN [type |-> "TypeError"]
        ELSE [type |-> "DataPrep",
              speaking_style |-> speaking_style,
              data |-> data,
              audiofile_ids |-> audiofile_ids.values,
              custom_features |-> Customise(DefaultFeatures(data), feature_dict.items),
              normalized_data |-> Null]

\* MinMaxScaler().fit_transform(X): per column (x - min) * scale, where scale
\* is 1 / (max - min), and 1 when the column is constant.
MinMaxScaler_fit_transform(X) ==
    LET ncol == Len(X[1])
        col(j) == [i \in DOMAIN X |-> X[i][j]]
        lo(j) == SeriesMin(col(j))
        hi(j) == FNeg(SeriesMin([i \in DOMAIN X |-> FNeg(X[i][j])]))
        scale(j) == IF hi(j) = lo(j) THEN FromInt(1)
                    ELSE FDiv(FromInt(1), FSub(hi(j), lo(j)))
    IN  [i \in DOMAIN X |-> [j \in 1..ncol |-> FMul(FSub(X[i][j], lo(j)), scale(j))]]

\* self.data[feature_columns] as a matrix
FeatureMatrix(dp) ==
    [i \in DOMAIN dp.data.rows |->
        [k \in DOMAIN dp.custom_features |-> dp.data.rows[i][dp.custom_features[k].field]]]

\* The values of a column in ascending order: the k-th of them is the value
\* with fewer than k values below it and at least k values not above it.
SortFloats(values) ==
    [k \in DOMAIN values |->
        CHOOSE v \in Range(values) :
            /\ Cardinality({i \in DOMAIN values : FLess(values[i], v)}) < k
            /\ Cardinality({i \in DOMAIN values : ~FLess(v, values[i])}) >= k]

\* np.percentile(values, q) with linear interpolation between the two
\* nearest ranks.
Percentile(values, q) ==
    LET sorted == SortFloats(values)
        n == Len(sorted)
        lower == ((n - 1) * q) \div 100
        weight == Frac(((n - 1) * q) % 100, 100)
    IN  IF lower + 1 >= n THEN sorted[n]
        ELSE FAdd(sorted[lower + 1],
                  FMul(weight, FSub(sorted[lower + 2], sorted[lower + 1])))

\* RobustScaler().fit_transform(X): per column (x - median) / (q75 - q25),
\* the divisor being 1 when the two quartiles are equal.
RobustScaler_fit_transform(X) ==
    LET ncol == Len(X[1])
        col(j) == [i \in DOMAIN X |-> X[i][j]]
        center(j) == Percentile(col(j), 50)
        iqr(j) == FSub(Percentile(col(j), 75), Percentile(col(j), 25))
        scale(j) == IF iqr(j) = FromInt(0) THEN FromInt(1) ELSE iqr(j)
    IN  [i \in DOMAIN X |-> [j \in 1..ncol |-> FDiv(FSub(X[i][j], center(j)), scale(j))]]

\* The scalers of sklearn.preprocessing that are passed to normalize_data.
Scalers == {"MinMaxScaler", "RobustScaler"}

\* scaler.fit_transform(X): the scaler is fit anew on X at every call.
fit_transform(scaler, X) ==
    IF scaler = "MinMaxScaler" THEN MinMaxScaler_fit_transform(X)
    ELSE RobustScaler_fit_transform(X)

\* Mutant: a matrix that is stored already is kept.
normalize_data_once(dp, scaler) ==
    IF dp.data.rows = <<>> \/ dp.custom_features = <<>>
    THEN ValueError("Found array with 0 sample(s) or 0 feature(s)")
    ELSE IF dp.normalized_data.type # "None" THEN dp
    ELSE [dp EXCEPT !.normalized_data =
              [type |-> "ndarray", X |-> fit_transform(scaler, FeatureMatrix(dp))]]

\* DataPrep.normalize_data(scaler): scikit-learn refuses a matrix without
\* rows or without columns.  Gives the DataPrep after the call, or the
\* exception raised.
normalize_data(dp, scaler) ==
    IF dp.data.rows = <<>> \/ dp.custom_features = <<>>
    THEN ValueError("Found array with 0 sample(s) or 0 feature(s)")
    ELSE [dp EXCEPT !.normalized_data =
              [type |-> "ndarray", X |-> fit_transform(scaler, FeatureMatrix(dp))]]

\* DataPrep.check_normality: scipy's shapiro is a black box that gives every
\* feature column its flag (p-value >= threshold) and refuses fewer than
\* three values; without a feature there is no column 'Feature' to index by.
check_normality(dp, is_normal) ==
    IF dp.custom_features = <<>> THEN KeyError("Feature")
    ELSE IF Len(dp.data.rows) < 3 THEN ValueError("Data must be at least length 3.")
    ELSE [type |-> "DataFrame",
          index |-> [k \in DOMAIN dp.custom_features |-> dp.custom_features[k].field],
          Normality |-> [k \in DOMAIN dp.custom_features |-> is_normal[k]]]

\* Series.any takes its arguments positionally in pandas 1 and by keyword
\* only in pandas 2; the repository pins no version.
PandasVersions == {1, 2}

\* shapiroWilk['Normality'].any(False): with pandas 1 the argument is the axis
\* (False = 0) and the result is whether some flag is true; with pandas 2 the
\* call raises TypeError.
Series_any(flags, pandas) ==
    IF pandas = 2 THEN [type |-> "TypeError"]
    ELSE [type |-> "bool", v |-> \E k \in DOMAIN flags : flags[k]]

\* DataPrep.normalize_data(scaler, check_normality=True).  Gives the lines
\* printed and the DataPrep after the call, or the exception raised.
normalize_data_checking(dp, scaler, is_normal, pandas) ==
    LET shapiroWilk == check_normality(dp, is_normal)
        isNotNormal == Series_any(shapiroWilk.Normality, pandas)
        normalized == normalize_data(dp, scaler)
    IN  IF IsError(shapiroWilk) THEN shapiroWilk
        ELSE IF IsError(isNotNormal) THEN isNotNormal
        ELSE IF IsError(normalized) THEN normalized
        ELSE [type |-> "ok",
              printed |-> IF isNotNormal.v
                          THEN "Not all features are normally distributed."
                          ELSE "All features are normally distributed.",
              self |-> normalized]

\* Mutant: the matrix is computed anew at every request.
get_normalized_data_always(dp, scaler) == normalize_data(dp, scaler)

\* DataPrep.get_normalized_data(scaler=MinMaxScaler()): normalizes first when
\* not done yet.  Gives the DataPrep after the call, or the exception raised.
get_normalized_data(dp, scaler) ==
    IF dp.normalized_data.type = "None" THEN normalize_data(dp, scaler) ELSE dp

(***************************************************************************)
(* grouping.py                                                             *)
(***************************************************************************)
\* Mutant: the labels are attached in reverse row order.
assign_column_reversed(df, field, values) ==
    IF Len(values) # Len(df.rows)
    THEN ValueError("Length of values does not match length of index")
    ELSE DataFrame(IF HasColumn(df, field) THEN df.columns ELSE Append(df.columns, field),
             [i \in DOMAIN df.rows |->
                 [c \in Range(df.columns) \cup {field} |->
                     IF c = field THEN values[Len(values) + 1 - i] ELSE df.rows[i][c]]])

\* Mutant: a list of another length is cut or padded with NaN instead of refused.
assign_column_unchecked(df, field, values) ==
    DataFrame(IF HasColumn(df, field) THEN df.columns ELSE Append(df.columns, field),
        [i \in DOMAIN df.rows |->
            [c \in Range(df.columns) \cup {field} |->
                IF c # field THEN df.rows[i][c]
                ELSE IF i \in DOMAIN values THEN values[i]
                ELSE [type |-> "float", v |-> NaN]]])

\* DataFrame.assign(**{field: values}) with a list or array of values: a new
\* frame with the column added (or replaced); pandas refuses a list whose
\* length is not the number of rows.
assign_column(df, field, values) ==
    IF Len(values) # Len(df.rows)
    THEN ValueError("Length of values does not match length of index")
    ELSE DataFrame(IF HasColumn(df, field) THEN df.columns ELSE Append(df.columns, field),
             [i \in DOMAIN df.rows |->
                 [c \in Range(df.columns) \cup {field} |->
                     IF c = field THEN values[i] ELSE df.rows[i][c]]])

\* Grouping.__init__ followed by setting group_labels and _add_labels().
Grouping_init(class, dp, label_fieldname, group_labels) ==
    LET labeled == assign_column(dp.data, label_fieldname, group_labels)
    IN  IF IsError(labeled) THEN labeled
        ELSE [type |-> class,
              label_fieldname |-> label_fieldname,
              group_labels |-> group_labels,
              data_with_group_labels |-> labeled]

\* Clustering.__init__, given what fit_predict returns for the matrix.
Clustering_init(dp, predicted) == Grouping_init("Clustering", dp, "Cluster", predicted)

PredefinedGrouping_init(dp, group_labels) ==
    Grouping_init("PredefinedGrouping", dp, "Group", group_labels)

\* The decimal text of a natural number, as numpy writes it.
RECURSIVE ToDigits(_)
ToDigits(n) == IF n < 10 THEN <<48 + n>> ELSE ToDigits(n \div 10) \o <<48 + (n % 10)>>

CountOf(labels, l) == Cardinality({i \in DOMAIN labels : labels[i] = l})

\* Mutant: the labels in the order of their first occurrence.
UniqueLabels_unsorted(labels) ==
    LET RECURSIVE Firsts(_)
        Firsts(i) == IF i > Len(labels) THEN <<>>
                     ELSE (IF \E j \in 1..(i - 1) : labels[j] = labels[i]
                           THEN <<>> ELSE <<labels[i]>>) \o Firsts(i + 1)
    IN  Firsts(1)

\* np.unique(group_labels): the distinct labels in ascending order
UniqueLabels(labels) == SortCells(Range(labels))

\* Grouping.get_group_sizes: np.asarray((unique, counts)).T has one dtype, so
\* beside string labels the counts are turned into their text.
get_group_sizes(g) ==
    LET unique == UniqueLabels(g.group_labels)
    IN  [k \in DOMAIN unique |->
            <<unique[k],
              IF unique[k].type = "str"
              THEN Str(ToDigits(CountOf(g.group_labels, unique[k])))
              ELSE Int_(CountOf(g.group_labels, unique[k]))>>]

(***************************************************************************)
(* asr_performance_data.py, grouping_performance.py, utils.py              *)
(***************************************************************************)
\* A row made of the cells of two rows (the key is in both).
JoinRows(l, r) == [c \in DOMAIN l \cup DOMAIN r |-> IF c \in DOMAIN l THEN l[c] ELSE r[c]]

\* The columns of the right frame that the left one lacks.
NewColumns(left, right) == SelectSeq(right.columns, LAMBDA c : ~HasColumn(left, c))

\* Mutant: a left join; a left row without a match is kept, with NaN cells.
InnerMerge_keep_left(left, right, on) ==
    LET blank == [c \in Range(right.columns) |-> [type |-> "float", v |-> NaN]]
        matches(i) == SelectSeq(right.rows, LAMBDA r : r[on] = left.rows[i][on])
        RECURSIVE From(_)
        From(i) ==
            IF i > Len(left.rows) THEN <<>>
            ELSE (IF matches(i) = <<>> THEN <<JoinRows(left.rows[i], blank)>>
                  ELSE [j \in DOMAIN matches(i) |-> JoinRows(left.rows[i], matches(i)[j])])
                     \o From(i + 1)
    IN  DataFrame(left.columns \o NewColumns(left, right), From(1))

\* Mutant: every left row is paired with every right row.
InnerMerge_cross(left, right, on) ==
    LET RECURSIVE From(_)
        From(i) ==
            IF i > Len(left.rows) THEN <<>>
            ELSE [j \in DOMAIN right.rows |-> JoinRows(left.rows[i], right.rows[j])]
                     \o From(i + 1)
    IN  DataFrame(left.columns \o NewColumns(left, right), From(1))

\* left.merge(right, on=on, how='inner'): for every left row, in order, one
\* row per right row with the same key.  (The frames merged here share no
\* column but the key.)
InnerMerge(left, right, on) ==
    LET matches(i) == SelectSeq(right.rows, LAMBDA r : r[on] = left.rows[i][on])
        RECURSIVE From(_)
        From(i) ==
            IF i > Len(left.rows) THEN <<>>
            ELSE [j \in DOMAIN matches(i) |-> JoinRows(left.rows[i], matches(i)[j])]
                     \o From(i + 1)
    IN  DataFrame(left.columns \o NewColumns(left, right), From(1))

ErrorColumns == <<"SPKR", "# Wrd", "Sub", "Del", "Ins">>

\* Mutant: every table is tagged with the first model.
TaggedErrorData_one_model(file, model) ==
    [i \in DOMAIN file.rows |->
        [c \in Range(ErrorColumns) \cup {"Model"} |->
            IF c = "Model" THEN <<77, 49>> ELSE file.rows[i][c]]]

\* pd.read_csv(path)[ErrorColumns] with the column 'Model' added
TaggedErrorData(file, model) ==
    [i \in DOMAIN file.rows |->
        [c \in Range(ErrorColumns) \cup {"Model"} |->
            IF c = "Model" THEN model ELSE file.rows[i][c]]]

\* pd.concat over the speaker groups and, within each, the ASR models
CombinedErrorData(speaker_groups, asr_models, files) ==
    DataFrame(Append(ErrorColumns, "Model"),
        Concat([g \in DOMAIN speaker_groups |->
            Concat([m \in DOMAIN asr_models |->
                TaggedErrorData(files[<<speaker_groups[g], asr_models[m]>>], asr_models[m])])]))

\* AsrPerformanceData.build_dataframe
build_dataframe(meta_data, speaker_groups, asr_models, files) ==
    InnerMerge(meta_data, CombinedErrorData(speaker_groups, asr_models, files), "SPKR")

\* GroupingPerformance.merge_data
merge_data(g, performance_data) ==
    InnerMerge(performance_data, g.data_with_group_labels, "Filename")

\* Mutant: the share of the words without an error, in percent.
word_error_rate_accuracy(insertions, deletions, substitutions, words) ==
    FSub(FromInt(100),
         FMul(FDiv(FromInt(insertions + deletions + substitutions), FromInt(words)),
              FromInt(100)))

\* word_error_rate(insertions, deletions, substitutions, words) on counts
word_error_rate(insertions, deletions, substitutions, words) ==
    FMul(FDiv(FromInt(insertions + deletions + substitutions), FromInt(words)), FromInt(100))

RECURSIVE SumColumn(_, _)
SumColumn(rows, c) == IF rows = <<>> THEN 0 ELSE Head(rows)[c] + SumColumn(Tail(rows), c)

\* Mutant: the mean of the WERs of the rows of the group.
GroupWER_mean_of_rows(rows) ==
    SeriesMean([i \in DOMAIN rows |->
        word_error_rate(rows[i]["Sub"], rows[i]["Del"], rows[i]["Ins"], rows[i]["# Wrd"])])

\* agg('sum') of one group, then word_error_rate on the sums
GroupWER(rows) ==
    word_error_rate(SumColumn(rows, "Sub"), SumColumn(rows, "Del"), SumColumn(rows, "Ins"),
                    SumColumn(rows, "# Wrd"))

\* GroupingPerformance.get_group_WERs: the groups of groupby(['Model', field])
\* come in ascending order of the model, then of the label.
get_group_WERs(df, label_fieldname) ==
    IF ~HasColumn(df, label_fieldname) THEN KeyError(label_fieldname)
    ELSE LET models == SortStrs({df.rows[i]["Model"] : i \in DOMAIN df.rows})
             of(m) == SelectSeq(df.rows, LAMBDA r : r["Model"] = m)
             labels(m) == SortCells({of(m)[i][label_fieldname] : i \in DOMAIN of(m)})
             wers(m) ==
                 [k \in DOMAIN labels(m) |->
                     [Model |-> m, Label |-> labels(m)[k],
                      WER |-> GroupWER(SelectSeq(of(m),
                                  LAMBDA r : r[label_fieldname] = labels(m)[k]))]]
         IN  [type |-> "ok", rows |-> Concat([k \in DOMAIN models |-> wers(models[k])])]

\* GroupingPerformance.calculate_bias / calculate_bias_per_group:
\* meta_measure.compute(self.get_group_WERs(label_fieldname))
calculate_bias(df, label_fieldname, measure) ==
    LET wers == get_group_WERs(df, label_fieldname)
    IN  IF IsError(wers) THEN wers ELSE OverallBias_compute(measure, wers.rows)

\* GroupingPerformance.calculate_bias_per_group: the second table of compute
calculate_bias_per_group(df, label_fieldname, measure) ==
    LET computed == calculate_bias(df, label_fieldname, measure)
    IN  IF IsError(computed) THEN computed
        ELSE [type |-> "ok", rows |-> computed.bias_df]

\* The row of a table with one more column.
WithCell(row, c, value) ==
    [k \in DOMAIN row \cup {c} |-> IF k = c THEN value ELSE row[k]]

SpeakerWER(spkr) ==
    word_error_rate(spkr["Sub"], spkr["Del"], spkr["Ins"], spkr["# Wrd"])

\* Mutant: the column is assigned on the table of the object itself.
get_wer_per_speaker_no_copy(df) ==
    LET wer_per_speaker ==
            DataFrame(df.columns \o <<"Speaker Bias">>,
                [i \in DOMAIN df.rows |->
                    WithCell(df.rows[i], "Speaker Bias", SpeakerWER(df.rows[i]))])
    IN  [self |-> wer_per_speaker, result |-> wer_per_speaker]

\* GroupingPerformance.get_wer_per_speaker: the column 'Speaker Bias' is
\* assigned on a copy of the merged table.  self is the merged table of the
\* object after the call.
get_wer_per_speaker(df) ==
    LET copy == df
        wer_per_speaker ==
            DataFrame(copy.columns \o <<"Speaker Bias">>,
                [i \in DOMAIN copy.rows |->
                    WithCell(copy.rows[i], "Speaker Bias", SpeakerWER(df.rows[i]))])
    IN  [self |-> df, result |-> wer_per_speaker]

\* Series.describe() of floats: count, mean, min, the quartiles and max.  The
\* standard deviation is left as its square, the sample variance (NaN for
\* fewer than two values).
describe(values) ==
    LET n == Len(values)
        mean == SeriesMean(values)
        squares == [i \in DOMAIN values |->
                       FMul(FSub(values[i], mean), FSub(values[i], mean))]
    IN  [count |-> n,
         mean |-> mean,
         variance |-> IF n < 2 THEN NaN ELSE FDiv(FSum(squares), FromInt(n - 1)),
         min |-> SeriesMin(values),
         q25 |-> Percentile(values, 25),
         q50 |-> Percentile(values, 50),
         q75 |-> Percentile(values, 75),
         max |-> FNeg(SeriesMin([i \in DOMAIN values |-> FNeg(values[i])]))]

\* GroupingPerformance.get_error_description_per_group: the groups of
\* groupby([field, 'Model']) in ascending order of the label, then the model.
get_error_description_per_group(df, label_fieldname) ==
    LET wer_per_speaker == get_wer_per_speaker(df).result
        rows == wer_per_speaker.rows
        labels == SortCells({rows[i][label_fieldname] : i \in DOMAIN rows})
        of(l) == SelectSeq(rows, LAMBDA r : r[label_fieldname] = l)
        models(l) == SortStrs({of(l)[i]["Model"] : i \in DOMAIN of(l)})
        described(l) ==
            [k \in DOMAIN models(l) |->
                [Label |-> l, Model |-> models(l)[k],
                 describe |-> describe(Column(
                     SelectSeq(of(l), LAMBDA r : r["Model"] = models(l)[k]),
                     "Speaker Bias"))]]
    IN  IF ~HasColumn(df, label_fieldname) THEN KeyError(label_fieldname)
        ELSE [type |-> "ok",
              rows |-> Concat([k \in DOMAIN labels |-> described(labels[k])])]

\* self.get_data()[['Filename', x, y]].groupby('Filename').first(): one row
\* per Filename in ascending order, with the x and y of its first row.
groups_by_speaker(df, x_label_fieldname, y_label_fieldname) ==
    LET names == SortCells({df.rows[i]["Filename"] : i \in DOMAIN df.rows})
        first(name) ==
            df.rows[CHOOSE i \in DOMAIN df.rows :
                        /\ df.rows[i]["Filename"] = name
                        /\ \A j \in 1..(i - 1) : df.rows[j]["Filename"] # name]
    IN  IF ~HasColumn(df, x_label_fieldname) THEN KeyError(x_label_fieldname)
        ELSE IF ~HasColumn(df, y_label_fieldname) THEN KeyError(y_label_fieldname)
        ELSE [type |-> "DataFrame",
              index |-> names,
              columns |-> <<x_label_fieldname, y_label_fieldname>>,
              rows |-> [k \in DOMAIN names |->
                           [c \in {x_label_fieldname, y_label_fieldname} |->
                               first(names[k])[c]]]]

\* Mutant: every row of the merged table is counted.
crosstab_rows_unreduced(df, x_label_fieldname, y_label_fieldname) ==
    IF ~HasColumn(df, x_label_fieldname) THEN KeyError(x_label_fieldname)
    ELSE IF ~HasColumn(df, y_label_fieldname) THEN KeyError(y_label_fieldname)
    ELSE [type |-> "DataFrame",
          index |-> Column(df.rows, "Filename"),
          columns |-> <<x_label_fieldname, y_label_fieldname>>,
          rows |-> df.rows]

\* The rows that pd.crosstab counts.
crosstab_rows(df, x_label_fieldname, y_label_fieldname) ==
    groups_by_speaker(df, x_label_fieldname, y_label_fieldname)

\* pd.crosstab(frame[x], frame[y]): the values of x and of y in ascending
\* order, and the number of rows with each pair.
crosstab(frame, x, y) ==
    LET index == SortCells({frame.rows[k][x] : k \in DOMAIN frame.rows})
        columns == SortCells({frame.rows[k][y] : k \in DOMAIN frame.rows})
    IN  [type |-> "crosstab",
         index |-> index,
         columns |-> columns,
         values |-> [i \in DOMAIN index |-> [j \in DOMAIN columns |->
                        Cardinality({k \in DOMAIN frame.rows :
                            /\ frame.rows[k][x] = index[i]
                            /\ frame.rows[k][y] = columns[j]})]]]

\* counts_crosstab.sum(axis=1) of one row
RECURSIVE RowSum(_)
RowSum(row) == IF row = <<>> THEN 0 ELSE Head(row) + RowSum(Tail(row))

\* Mutant: the counts are divided by the number of all speakers.
percentage_of_all(counts, i, j) ==
    FMul(FDiv(FromInt(counts.values[i][j]),
              FromInt(RowSum([k \in DOMAIN counts.values |-> RowSum(counts.values[k])]))),
         FromInt(100))

\* counts_crosstab.div(counts_crosstab.sum(axis=1), axis=0) * 100
percentage(counts, i, j) ==
    FMul(FDiv(FromInt(counts.values[i][j]), FromInt(RowSum(counts.values[i]))),
         FromInt(100))

\* GroupingPerformance.get_group_distribution
get_group_distribution(df, x_label_fieldname, y_label_fieldname) ==
    LET frame == crosstab_rows(df, x_label_fieldname, y_label_fieldname)
        counts_crosstab == crosstab(frame, x_label_fieldname, y_label_fieldname)
    IN  IF IsError(frame) THEN frame
        ELSE [type |-> "crosstab",
              index |-> counts_crosstab.index,
              columns |-> counts_crosstab.columns,
              values |-> [i \in DOMAIN counts_crosstab.index |->
                            [j \in DOMAIN counts_crosstab.columns |->
                                percentage(counts_crosstab, i, j)]]]

\* The column label 'Total'.
Total == Str(<<84, 111, 116, 97, 108>>)

\* counts_crosstab['Total'] = counts_crosstab.sum(axis=1): a column of that
\* label is overwritten, otherwise the column is appended.
WithTotal(counts_crosstab) ==
    LET columns == counts_crosstab.columns
        present == \E j \in DOMAIN columns : columns[j] = Total
        sums == [i \in DOMAIN counts_crosstab.index |-> RowSum(counts_crosstab.values[i])]
    IN  [type |-> "crosstab",
         index |-> counts_crosstab.index,
         columns |-> IF present THEN columns ELSE Append(columns, Total),
         values |-> [i \in DOMAIN counts_crosstab.index |->
                       IF present
                       THEN [j \in DOMAIN columns |->
                                IF columns[j] = Total THEN sums[i]
                                ELSE counts_crosstab.values[i][j]]
                       ELSE Append(counts_crosstab.values[i], sums[i])]]

\* GroupingPerformance.get_group_counts_comparison
get_group_counts_comparison(df, x_label_fieldname, y_label_fieldname) ==
    LET frame == crosstab_rows(df, x_label_fieldname, y_label_fieldname)
    IN  IF IsError(frame) THEN frame
        ELSE WithTotal(crosstab(frame, x_label_fieldname, y_label_fieldname))

\* Series.unique(): the values in the order of their first appearance.
RECURSIVE unique(_)
unique(values) ==
    IF values = <<>> THEN <<>>
    ELSE LET rest == unique(SubSeq(values, 1, Len(values) - 1))
             last == values[Len(values)]
         IN  IF last \in Range(rest) THEN rest ELSE Append(rest, last)

\* GroupingPerformance.get_group_labels
get_group_labels(df, label_fieldname) ==
    IF ~HasColumn(df, label_fieldname) THEN KeyError(label_fieldname)
    ELSE [type |-> "ndarray", values |-> unique(Column(df.rows, label_fieldname))]

(***************************************************************************)
(* filepaths.py                                                            *)
(*                                                                         *)
(* A dict is the sequence of its items in insertion order.  A path is the  *)
(* template it was formatted from together with the values filled in.      *)
(***************************************************************************)
StopIteration == [type |-> "StopIteration"]

\* {entry['id']: {'name': ..., 'abbreviation': ...} for entry in config}: an
\* id that comes again keeps its place and takes the later value.
RECURSIVE SpeakingStylesData(_)
SpeakingStylesData(speaking_styles_config) ==
    IF speaking_styles_config = <<>> THEN <<>>
    ELSE LET n == Len(speaking_styles_config)
             entry == speaking_styles_config[n]
             before == SpeakingStylesData(SubSeq(speaking_styles_config, 1, n - 1))
             item == [key |-> entry.id,
                      value |-> [type |-> "dict", name |-> entry.name,
                                 abbreviation |-> entry.abbreviation]]
         IN  IF \E k \in DOMAIN before : before[k].key = entry.id
             THEN [k \in DOMAIN before |->
                      IF before[k].key = entry.id THEN item ELSE before[k]]
             ELSE Append(before, item)

\* FilepathManager.__init__ on the parsed configuration file
FilepathManager_init(config) ==
    [type |-> "FilepathManager",
     base_path |-> config.asr_performance.base_path,
     asr_models |-> config.asr_performance.asr_models,
     speaker_groups |-> config.asr_performance.speaker_groups,
     base_metrics |-> config.asr_performance.base_metrics,
     path_templates |-> config.asr_performance.path_templates,
     speaking_styles_data |-> SpeakingStylesData(config.speaking_styles)]

get_speaking_styles_data(fm) == fm.speaking_styles_data

\* Mutant: an id that is not configured is refused.
StyleOrFirst_strict(speaking_styles_dict, speaking_style_id) ==
    IF \E k \in DOMAIN speaking_styles_dict : speaking_styles_dict[k].key = speaking_style_id
    THEN speaking_styles_dict[CHOOSE k \in DOMAIN speaking_styles_dict :
                                 speaking_styles_dict[k].key = speaking_style_id].value
    ELSE KeyError(speaking_style_id)

\* Mutant: without any style a request is answered with the style Rd.
StyleOrFirst_none(speaking_styles_dict, speaking_style_id) ==
    IF speaking_styles_dict = <<>>
    THEN [type |-> "dict", name |-> "Read speech", abbreviation |-> "Rd"]
    ELSE IF \E k \in DOMAIN speaking_styles_dict :
                speaking_styles_dict[k].key = speaking_style_id
    THEN speaking_styles_dict[CHOOSE k \in DOMAIN speaking_styles_dict :
                                 speaking_styles_dict[k].key = speaking_style_id].value
    ELSE speaking_styles_dict[1].value

\* speaking_styles_dict.get(speaking_style_id,
\*                          speaking_styles_dict[next(iter(speaking_styles_dict))]):
\* the default is evaluated before the lookup, and next() of the iterator of
\* an empty dict raises StopIteration.
StyleOrFirst(speaking_styles_dict, speaking_style_id) ==
    IF speaking_styles_dict = <<>> THEN StopIteration
    ELSE IF \E k \in DOMAIN speaking_styles_dict :
                speaking_styles_dict[k].key = speaking_style_id
    THEN speaking_styles_dict[CHOOSE k \in DOMAIN speaking_styles_dict :
                                 speaking_styles_dict[k].key = speaking_style_id].value
    ELSE speaking_styles_dict[1].value

\* FilepathManager._generate_path for the error rate template
generate_error_rate_path(fm, speaking_style, speaker_group, asr_model) ==
    [type |-> "path",
     template |-> fm.path_templates.error_rate_file, base_path |-> fm.base_path,
     speaking_style |-> speaking_style, speaker_group |-> speaker_group,
     asr_model |-> asr_model]

\* FilepathManager._generate_path for the metadata template
generate_meta_path(fm, speaking_style) ==
    [type |-> "path",
     template |-> fm.path_templates.meta_file, base_path |-> fm.base_path,
     speaking_style |-> speaking_style]

\* FilepathManager.get_error_rate_path: the path, or the exception raised.
get_error_rate_path(fm, speaking_style_id, speaker_group, asr_model) ==
    LET style == StyleOrFirst(get_speaking_styles_data(fm), speaking_style_id)
    IN  IF IsError(style) THEN style
        ELSE generate_error_rate_path(fm, style.abbreviation, speaker_group, asr_model)

\* FilepathManager.get_meta_path: the path, or the exception raised.
get_meta_path(fm, speaking_style_id) ==
    LET style == StyleOrFirst(get_speaking_styles_data(fm), speaking_style_id)
    IN  IF IsError(style) THEN style ELSE generate_meta_path(fm, style.abbreviation)

\* FilepathManager.get_speaking_style_data
get_speaking_style_data(fm, speaking_style_id) ==
    StyleOrFirst(get_speaking_styles_data(fm), speaking_style_id)

get_speaker_groups(fm) == fm.speaker_groups

get_asr_models(fm) == fm.asr_models

\* pd.read_csv(path) on a disk that holds, for every style abbreviation, the
\* metadata file and the error-count file of every (group, model).
read_csv(disk, path) ==
    IF "speaker_group" \in DOMAIN path
    THEN disk[path.speaking_style].files[<<path.speaker_group, path.asr_model>>]
    ELSE disk[path.speaking_style].meta_data

\* AsrPerformanceData.__init__: the object, or the exception raised.
AsrPerformanceData_init(fm, speaking_style_id, disk) ==
    LET speaking_style_info == get_speaking_style_data(fm, speaking_style_id)
        meta_data == read_csv(disk, get_meta_path(fm, speaking_style_id))
        files == [key \in {<<g, m>> : g \in Range(get_speaker_groups(fm)),
                                      m \in Range(get_asr_models(fm))} |->
                     read_csv(disk, get_error_rate_path(fm, speaking_style_id,
                                                        key[1], key[2]))]
    IN  IF IsError(speaking_style_info) THEN speaking_style_info
        ELSE [type |-> "AsrPerformanceData",
              speaking_style_id |-> speaking_style_id,
              speaking_style_info |-> speaking_style_info,
              data |-> build_dataframe(meta_data, get_speaker_groups(fm),
                                       get_asr_models(fm), files)]

\* AsrPerformanceData.get_speaking_style
get_speaking_style(object) == object.speaking_style_id

(***************************************************************************)
(* The pipeline of main.py: the feature source is loaded, a grouping is     *)
(* built on it, the recognition output is built and merged with it, and     *)
(* the WERs and the bias are asked for.                                     *)
(***************************************************************************)
Ok == [type |-> "ok"]

MaxId == 3

\* The recording of speaker i, and the speaker id of speaker i.
FileName(i) == Str(<<102, 48 + i>>)

SpeakerId(i) == Str(<<115, 48 + i>>)

RECURSIVE AscSeq(_)
AscSeq(S) ==
    IF S = {} THEN <<>>
    ELSE LET m == CHOOSE x \in S : \A y \in S : x <= y
         IN  <<m>> \o AscSeq(S \ {m})

\* The recordings of a feature source: some of 1..MaxId in ascending order,
\* possibly with the first one listed a second time.
FeatureIdSeqs ==
    {AscSeq(S) : S \in SUBSET (1..MaxId)}
        \cup {AscSeq(S) \o <<AscSeq(S)[1]>> : S \in (SUBSET (1..MaxId)) \ {{}}}

FeatureRow(i) ==
    [c \in {"Filename", "Mean Pitch (Hz)"} |->
        IF c = "Filename" THEN FileName(i) ELSE FromInt(100 + (10 * i))]

FeatureFile(ids) ==
    DataFrame(<<"Filename", "Mean Pitch (Hz)">>, [k \in DOMAIN ids |-> FeatureRow(ids[k])])

PipelineSources ==
    {[file |-> FeatureFile(ids), speaking_style |-> "read", feature_dict |-> Dict(<<>>),
      dropcolumns |-> {}] : ids \in FeatureIdSeqs}

DemographicGroups == {GroupName(1), GroupName(2)}

ClusterIds == {Int_(0), Int_(1)}

SeqsUpTo(S, n) == UNION {[1..k -> S] : k \in 0..n}

Init ==
    /\ pc = "start"
    /\ bias_measure = Null
    /\ error_rates_per_group = Null
    /\ result = Null
    /\ call = Null
    /\ data_prep = Null
    /\ grouping = Null
    /\ asr_performance = Null
    /\ merged_data = Null
    /\ filepath_manager = Null

\* data_prep = DataPrep(file_path, speaking_style, feature_dict, dropcolumns)
Load(sources) ==
    /\ pc = "start"
    /\ \E src \in sources :
          LET dp == DataPrep_init(src.file, src.speaking_style, src.feature_dict,
                                  src.dropcolumns)
          IN  /\ call' = [op |-> "DataPrep", args |-> src]
              /\ result' = IF IsError(dp) THEN dp ELSE Ok
              /\ data_prep' = IF IsError(dp) THEN Null ELSE dp
              /\ pc' = IF IsError(dp) THEN "failed" ELSE "loaded"
    /\ UNCHANGED <<metricVars, grouping, asr_performance, merged_data, filepath_manager>>

LoadFeatures == Load(PipelineSources)

\* data_prep.normalize_data(scaler=scaler, check_normality=False)
NormalizeData ==
    /\ pc \in {"loaded", "grouped"}
    /\ \E scaler \in Scalers :
          LET dp == normalize_data(data_prep, scaler)
          IN  /\ call' = [op |-> "normalize_data", scaler |-> scaler]
              /\ result' = IF IsError(dp) THEN dp ELSE Ok
              /\ data_prep' = IF IsError(dp) THEN data_prep ELSE dp
              /\ pc' = IF IsError(dp) THEN "failed" ELSE pc
    /\ UNCHANGED <<metricVars, grouping, asr_performance, merged_data, filepath_manager>>

\* data_prep.get_normalized_data(scaler)
GetNormalizedData ==
    /\ pc \in {"loaded", "grouped"}
    /\ \E scaler \in Scalers :
          LET dp == get_normalized_data(data_prep, scaler)
          IN  /\ call' = [op |-> "get_normalized_data", scaler |-> scaler]
              /\ result' = IF IsError(dp) THEN dp ELSE dp.normalized_data
              /\ data_prep' = IF IsError(dp) THEN data_prep ELSE dp
              /\ pc' = IF IsError(dp) THEN "failed" ELSE pc
    /\ UNCHANGED <<metricVars, grouping, asr_performance, merged_data, filepath_manager>>

\* clustering = Clustering(data_prep, clusteringAlgorithm): the algorithm is a
\* black box giving one cluster id per row of the normalized matrix.
NewClustering ==
    /\ pc = "loaded"
    /\ LET dp == get_normalized_data(data_prep, "MinMaxScaler")
       IN  IF IsError(dp)
           THEN /\ call' = [op |-> "Clustering"]
                /\ result' = dp
                /\ pc' = "failed"
                /\ UNCHANGED <<data_prep, grouping>>
           ELSE \E predicted \in [1..Len(dp.data.rows) -> ClusterIds] :
                    /\ call' = [op |-> "Clustering", predicted |-> predicted]
                    /\ data_prep' = dp
                    /\ grouping' = Clustering_init(dp, predicted)
                    /\ result' = Ok
                    /\ pc' = "grouped"
    /\ UNCHANGED <<metricVars, asr_performance, merged_data, filepath_manager>>

\* PredefinedGrouping(data_prep, group_labels) with a list of any length
NewPredefinedGrouping ==
    /\ pc = "loaded"
    /\ \E group_labels \in SeqsUpTo(DemographicGroups, Len(data_prep.data.rows) + 1) :
          LET g == PredefinedGrouping_init(data_prep, group_labels)
          IN  /\ call' = [op |-> "PredefinedGrouping", group_labels |-> group_labels]
              /\ result' = IF IsError(g) THEN g ELSE Ok
              /\ grouping' = IF IsError(g) THEN Null ELSE g
              /\ pc' = IF IsError(g) THEN "failed" ELSE "grouped"
    /\ UNCHANGED <<metricVars, data_prep, asr_performance, merged_data, filepath_manager>>

GetGroupSizes ==
    /\ pc = "grouped"
    /\ call' = [op |-> "get_group_sizes"]
    /\ result' = [type |-> "ndarray", rows |-> get_group_sizes(grouping)]
    /\ UNCHANGED <<pc, metricVars, objVars>>

\* The recognition output: the speakers 1..MaxId+1, or all of them but the
\* first or the last, in the metadata and in the error-count files.
SpeakerSets == {1..(MaxId + 1), 2..(MaxId + 1), 1..MaxId}

DemographicGroup(i) == GroupName(1 + (i % 2))

speaker_groups == <<GroupName(1), GroupName(2)>>

asr_models == ModelNames

MetaData(S) ==
    DataFrame(<<"SPKR", "Filename", "Group">>,
        [k \in 1..Cardinality(S) |->
            LET i == AscSeq(S)[k]
            IN  [c \in {"SPKR", "Filename", "Group"} |->
                    IF c = "SPKR" THEN SpeakerId(i)
                    ELSE IF c = "Filename" THEN FileName(i) ELSE DemographicGroup(i)]])

CountVariants == {"varied", "even"}

\* The counts of speaker i under a model: with word counts that differ from
\* speaker to speaker, or with 20 words each.
ErrorRow(variant, i, model) ==
    [c \in Range(ErrorColumns) |->
        IF c = "SPKR" THEN SpeakerId(i)
        ELSE IF variant = "varied"
        THEN (IF c = "# Wrd" THEN 10 * i
              ELSE IF c = "Sub" THEN i
              ELSE IF c = "Del" THEN (IF model = M2 THEN 1 ELSE 0)
              ELSE 1)
        ELSE (IF c = "# Wrd" THEN 20
              ELSE IF c = "Sub" THEN 2
              ELSE IF c = "Del" THEN 1
              ELSE (IF model = M2 THEN i ELSE 1))]

\* The error-count file of every (speaker group, ASR model).
ErrorFiles(S, variant) ==
    [key \in {<<g, m>> : g \in Range(speaker_groups), m \in Range(asr_models)} |->
        LET members == AscSeq({i \in S : DemographicGroup(i) = key[1]})
        IN  DataFrame(ErrorColumns,
                [k \in DOMAIN members |-> ErrorRow(variant, members[k], key[2])])]

\* The speaking styles of a configuration file.
ReadStyle == [id |-> "read", name |-> "Read speech", abbreviation |-> "Rd"]

HmiStyle == [id |-> "hmi", name |-> "Human machine interaction", abbreviation |-> "HMI"]

\* The parsed configuration file with the given speaking styles.
Config(speaking_styles) ==
    [asr_performance |->
        [base_path |-> "asr_output",
         asr_models |-> asr_models,
         speaker_groups |-> speaker_groups,
         base_metrics |-> <<"WER">>,
         path_templates |->
            [error_rate_file |-> "{base_path}/{asr_model}/{speaking_style}/{speaker_group}.csv",
             meta_file |-> "{base_path}/meta/{speaking_style}.csv"]],
     speaking_styles |-> speaking_styles]

OtherVariant(variant) == IF variant = "varied" THEN "even" ELSE "varied"

\* The files on disk: those of the style Rd are the given ones, those of the
\* style HMI hold other speakers and other counts.
Disk(inMeta, inFiles, variant) ==
    [abbreviation \in {ReadStyle.abbreviation, HmiStyle.abbreviation} |->
        IF abbreviation = ReadStyle.abbreviation
        THEN [meta_data |-> MetaData(inMeta), files |-> ErrorFiles(inFiles, variant)]
        ELSE [meta_data |-> MetaData(inFiles),
              files |-> ErrorFiles(inMeta, OtherVariant(variant))]]

\* AsrPerformanceData(filepath_manager=fm, speaking_style_id=id) with an id of
\* ids, on any disk.
ConstructAsrPerformanceData(fm, ids) ==
    \E id \in ids, inMeta \in SpeakerSets, inFiles \in SpeakerSets, variant \in CountVariants :
        LET disk == Disk(inMeta, inFiles, variant)
            object == AsrPerformanceData_init(fm, id, disk)
            failed == IsError(object)
        IN  /\ call' = [op |-> "AsrPerformanceData",
                        speaking_style_id |-> id,
                        meta_data |-> IF failed THEN Null
                                      ELSE read_csv(disk, get_meta_path(fm, id)),
                        files |-> IF failed THEN Null
                                  ELSE [key \in {<<g, m>> : g \in Range(fm.speaker_groups),
                                                            m \in Range(fm.asr_models)} |->
                                           read_csv(disk,
                                               get_error_rate_path(fm, id, key[1], key[2]))]]
            /\ asr_performance' = IF failed THEN asr_performance ELSE object
            /\ result' = IF failed THEN object ELSE Ok
            /\ pc' = IF failed THEN "failed" ELSE "built"

\* filepath_manager = FilepathManager('python\config\config.json')
\* asr_performance_data = AsrPerformanceData(filepath_manager, speaking_style)
BuildDataframe ==
    /\ pc = "grouped"
    /\ grouping.type = "Clustering"
    /\ filepath_manager' = FilepathManager_init(Config(<<ReadStyle, HmiStyle>>))
    /\ ConstructAsrPerformanceData(FilepathManager_init(Config(<<ReadStyle, HmiStyle>>)),
                                   {ReadStyle.id})
    /\ UNCHANGED <<metricVars, data_prep, grouping, merged_data>>

\* clustering_performance = GroupingPerformance(clustering, asr_performance_data)
MergeData ==
    /\ pc = "built"
    /\ call' = [op |-> "GroupingPerformance"]
    /\ merged_data' = merge_data(grouping, asr_performance.data)
    /\ result' = Ok
    /\ pc' = "merged"
    /\ UNCHANGED <<metricVars, data_prep, grouping, asr_performance, filepath_manager>>

LabelFields == {"Cluster", "Group"}

GetGroupWERs ==
    /\ pc = "merged"
    /\ \E label_fieldname \in LabelFields :
          /\ call' = [op |-> "get_group_WERs", label_fieldname |-> label_fieldname]
          /\ result' = get_group_WERs(merged_data, label_fieldname)
    /\ UNCHANGED <<pc, metricVars, objVars>>

CalculateBias ==
    /\ pc = "merged"
    /\ \E label_fieldname \in LabelFields, measure \in BiasMeasures :
          /\ call' = [op |-> "calculate_bias", label_fieldname |-> label_fieldname,
                      measure |-> measure]
          /\ result' = calculate_bias(merged_data, label_fieldname, measure)
    /\ UNCHANGED <<pc, metricVars, objVars>>

Next ==
    \/ LoadFeatures
    \/ NormalizeData
    \/ GetNormalizedData
    \/ NewClustering
    \/ NewPredefinedGrouping
    \/ GetGroupSizes
    \/ BuildDataframe
    \/ MergeData
    \/ GetGroupWERs
    \/ CalculateBias

Spec == Init /\ [][Next]_vars

(***************************************************************************)
(* The analysis operations of a GroupingPerformance: after its             *)
(* construction on a clustering and a recognition output, any operation in *)
(* any order.                                                              *)
(***************************************************************************)
\* clustering_performance = GroupingPerformance(clustering, asr_performance_data)
\* on the clustering of a loaded feature source and the recognition output
\* of some speakers.
\* The recordings of the feature source: some of 1..MaxId in ascending order,
\* or all of them with the first one listed a second time.
AnalysisIdSeqs ==
    {AscSeq(S) : S \in (SUBSET (1..MaxId)) \ {{}}}
        \cup {AscSeq(1..MaxId) \o <<1>>}

InitAnalysis ==
    \E ids \in AnalysisIdSeqs, S \in SpeakerSets :
        \E predicted \in [1..Len(ids) -> ClusterIds] :
            LET dp == get_normalized_data(
                          DataPrep_init(FeatureFile(ids), "read", Dict(<<>>), {}),
                          "MinMaxScaler")
                fm == FilepathManager_init(Config(<<ReadStyle, HmiStyle>>))
                performance == AsrPerformanceData_init(fm, ReadStyle.id,
                                                       Disk(S, S, "varied"))
            IN  /\ pc = "merged"
                /\ data_prep = dp
                /\ grouping = Clustering_init(dp, predicted)
                /\ filepath_manager = fm
                /\ asr_performance = performance
                /\ merged_data = merge_data(Clustering_init(dp, predicted),
                                            performance.data)
                /\ call = [op |-> "GroupingPerformance"]
                /\ result = Ok
                /\ bias_measure = Null
                /\ error_rates_per_group = Null

CalculateBiasPerGroup ==
    /\ pc = "merged"
    /\ \E label_fieldname \in LabelFields, measure \in BiasMeasures :
          /\ call' = [op |-> "calculate_bias_per_group",
                      label_fieldname |-> label_fieldname, measure |-> measure]
          /\ result' = calculate_bias_per_group(merged_data, label_fieldname, measure)
    /\ UNCHANGED <<pc, metricVars, objVars>>

GetWerPerSpeaker ==
    /\ pc = "merged"
    /\ call' = [op |-> "get_wer_per_speaker"]
    /\ result' = get_wer_per_speaker(merged_data).result
    /\ merged_data' = get_wer_per_speaker(merged_data).self
    /\ UNCHANGED <<pc, metricVars, data_prep, grouping, asr_performance, filepath_manager>>

\* get_error_description_per_group calls get_wer_per_speaker on the object.
GetErrorDescriptionPerGroup ==
    /\ pc = "merged"
    /\ \E label_fieldname \in LabelFields :
          /\ call' = [op |-> "get_error_description_per_group",
                      label_fieldname |-> label_fieldname]
          /\ result' = get_error_description_per_group(merged_data, label_fieldname)
    /\ merged_data' = get_wer_per_speaker(merged_data).self
    /\ UNCHANGED <<pc, metricVars, data_prep, grouping, asr_performance, filepath_manager>>

\* The pairs of label columns main.py asks the cross tabulations for.
FieldPairs == {<<x, y>> \in LabelFields \X LabelFields : x # y}

GetGroupDistribution ==
    /\ pc = "merged"
    /\ \E fields \in FieldPairs :
          /\ call' = [op |-> "get_group_distribution",
                      x_label_fieldname |-> fields[1], y_label_fieldname |-> fields[2]]
          /\ result' = get_group_distribution(merged_data, fields[1], fields[2])
    /\ UNCHANGED <<pc, metricVars, objVars>>

GetGroupCountsComparison ==
    /\ pc = "merged"
    /\ \E fields \in FieldPairs :
          /\ call' = [op |-> "get_group_counts_comparison",
                      x_label_fieldname |-> fields[1], y_label_fieldname |-> fields[2]]
          /\ result' = get_group_counts_comparison(merged_data, fields[1], fields[2])
    /\ UNCHANGED <<pc, metricVars, objVars>>

GetGroupLabels ==
    /\ pc = "merged"
    /\ \E label_fieldname \in LabelFields :
          /\ call' = [op |-> "get_group_labels", label_fieldname |-> label_fieldname]
          /\ result' = get_group_labels(merged_data, label_fieldname)
    /\ UNCHANGED <<pc, metricVars, objVars>>

\* error_rates_per_group = clustering_performance.get_group_WERs('Group'): the
\* caller keeps the table.
KeepGroupWERs ==
    /\ pc = "merged"
    /\ call' = [op |-> "get_group_WERs", label_fieldname |-> "Group", kept |-> TRUE]
    /\ result' = get_group_WERs(merged_data, "Group")
    /\ error_rates_per_group' = get_group_WERs(merged_data, "Group")
    /\ UNCHANGED <<pc, bias_measure, objVars>>

\* OverallBias(measure).compute(error_rates_per_group) on the kept table: the
\* column 'Bias' is assigned on the groups that groupby hands out, which are
\* tables of their own.
ComputeOverallBias ==
    /\ pc = "merged"
    /\ error_rates_per_group.type = "ok"
    /\ \E measure \in BiasMeasures :
          /\ call' = [op |-> "compute", measure |-> measure]
          /\ result' = OverallBias_compute(measure, error_rates_per_group.rows)
    /\ error_rates_per_group' = error_rates_per_group
    /\ UNCHANGED <<pc, bias_measure, objVars>>

NextAnalysis ==
    \/ GetGroupWERs
    \/ CalculateBias
    \/ CalculateBiasPerGroup
    \/ GetWerPerSpeaker
    \/ GetErrorDescriptionPerGroup
    \/ GetGroupDistribution
    \/ GetGroupCountsComparison
    \/ GetGroupLabels
    \/ KeepGroupWERs
    \/ ComputeOverallBias

SpecAnalysis == InitAnalysis /\ [][NextAnalysis]_vars

(***************************************************************************)
(* bias_metric_pipeline2, beside the same steps without its guard          *)
(***************************************************************************)
MinGroupSize == 10

MaxRows == 21

\* Mutant: a cluster of exactly the minimum size is refused as well.
below_minimum_inclusive(group_sizes) ==
    \E k \in DOMAIN group_sizes : group_sizes[k][2].v <= MinGroupSize

\* clustering.get_group_sizes()[:, 1].min() < 10, on integer counts
below_minimum(group_sizes) ==
    \E k \in DOMAIN group_sizes :
        /\ \A j \in DOMAIN group_sizes : group_sizes[k][2].v <= group_sizes[j][2].v
        /\ group_sizes[k][2].v < MinGroupSize

\* The feature source with the recordings 1..n, and the cluster ids of a
\* clustering that puts the first k recordings in one cluster and the others
\* in a second one.
RecordingsUpTo(n) == [i \in 1..n |-> i]

SplitAt(n, k) == [i \in 1..n |-> IF i <= k THEN Int_(0) ELSE Int_(1)]

\* The recognition output handed to the pipeline: it holds all speakers of
\* the feature sources, or all but the first.
InitPipeline2 ==
    \E first \in {1, 2} :
        /\ pc = "start"
        /\ filepath_manager = FilepathManager_init(Config(<<ReadStyle, HmiStyle>>))
        /\ asr_performance =
              AsrPerformanceData_init(FilepathManager_init(Config(<<ReadStyle, HmiStyle>>)),
                  ReadStyle.id, Disk(first..MaxRows, first..MaxRows, "varied"))
        /\ data_prep = Null
        /\ grouping = Null
        /\ merged_data = Null
        /\ call = Null
        /\ result = Null
        /\ bias_measure = Null
        /\ error_rates_per_group = Null

\* The first steps of both pipelines: the feature source is loaded and
\* normalized, and clustered by a black box that gives the cluster ids
\* predicted.
PreparedData(file) ==
    normalize_data(DataPrep_init(file, "read", Dict(<<>>), {}), "MinMaxScaler")

ClusteringOf(file, predicted) == Clustering_init(PreparedData(file), predicted)

\* bias_metric_pipeline2: the value returned, and the merged table of the
\* GroupingPerformance when one is built.
bias_metric_pipeline2(file, predicted, overall_bias_measure, asr_performance_data) ==
    LET clustering == ClusteringOf(file, predicted)
        clustering_performance == merge_data(clustering, asr_performance_data.data)
    IN  IF below_minimum(get_group_sizes(clustering))
        THEN [returned |-> Null, clustering |-> clustering, merged_data |-> Null]
        ELSE [returned |-> calculate_bias(clustering_performance, "Cluster",
                                          overall_bias_measure),
              clustering |-> clustering,
              merged_data |-> clustering_performance]

\* bias_metric_pipeline up to calculate_bias('Cluster', measure): the same
\* steps without a test of the cluster sizes.
bias_metric_pipeline(file, predicted, overall_bias_measure, asr_performance_data) ==
    LET clustering == ClusteringOf(file, predicted)
        clustering_performance == merge_data(clustering, asr_performance_data.data)
    IN  [returned |-> calculate_bias(clustering_performance, "Cluster",
                                     overall_bias_measure),
         clustering |-> clustering,
         merged_data |-> clustering_performance]

BiasMetricPipeline2 ==
    /\ pc = "start"
    /\ \E n \in 1..MaxRows, measure \in BiasMeasures :
         \E k \in 0..n :
          LET done == bias_metric_pipeline2(FeatureFile(RecordingsUpTo(n)), SplitAt(n, k),
                                            measure, asr_performance)
          IN  /\ call' = [op |-> "bias_metric_pipeline2", predicted |-> SplitAt(n, k),
                          measure |-> measure]
              /\ data_prep' = PreparedData(FeatureFile(RecordingsUpTo(n)))
              /\ grouping' = done.clustering
              /\ merged_data' = done.merged_data
              /\ result' = done.returned
              /\ pc' = "returned"
    /\ UNCHANGED <<metricVars, asr_performance, filepath_manager>>

BiasMetricPipeline ==
    /\ pc = "start"
    /\ \E n \in 1..MaxRows, measure \in BiasMeasures :
         \E k \in 0..n :
          LET done == bias_metric_pipeline(FeatureFile(RecordingsUpTo(n)), SplitAt(n, k),
                                           measure, asr_performance)
          IN  /\ call' = [op |-> "bias_metric_pipeline", predicted |-> SplitAt(n, k),
                          measure |-> measure]
              /\ data_prep' = PreparedData(FeatureFile(RecordingsUpTo(n)))
              /\ grouping' = done.clustering
              /\ merged_data' = done.merged_data
              /\ result' = done.returned
              /\ pc' = "returned"
    /\ UNCHANGED <<metricVars, asr_performance, filepath_manager>>

NextPipeline2 ==
    \/ BiasMetricPipeline2
    \/ BiasMetricPipeline

SpecPipeline2 == InitPipeline2 /\ [][NextPipeline2]_vars

(***************************************************************************)
(* The demographic grouping of bias_metric_pipeline, on feature sources in *)
(* any row order                                                           *)
(***************************************************************************)
\* clustering_performance.get_data().groupby('Filename').agg(agg_dict): one
\* row per Filename of the merged table in ascending order, with the mean of
\* every feature column and the first 'Cluster' and 'Group'.
combined_data_by_speaker(df, numeric_cols) ==
    LET names == SortCells({df.rows[i]["Filename"] : i \in DOMAIN df.rows})
        of(name) == SelectSeq(df.rows, LAMBDA r : r["Filename"] = name)
    IN  [type |-> "DataFrame",
         index |-> names,
         columns |-> numeric_cols \o <<"Cluster", "Group">>,
         rows |-> [k \in DOMAIN names |->
                     [c \in Range(numeric_cols) \cup {"Cluster", "Group"} |->
                         IF c \in {"Cluster", "Group"} THEN of(names[k])[1][c]
                         ELSE SeriesMean(Column(of(names[k]), c))]]]

\* demographic_groups = combined_data_by_speaker['Group'].tolist()
demographic_groups(df, numeric_cols) ==
    Column(combined_data_by_speaker(df, numeric_cols).rows, "Group")

\* The recordings of the feature source: some of 1..MaxId, each once, in any
\* order.
AnyOrderIdSeqs ==
    {ids \in UNION {[1..k -> 1..MaxId] : k \in 1..MaxId} :
        \A i, j \in DOMAIN ids : (ids[i] = ids[j]) => i = j}

\* The state of bias_metric_pipeline after line 55: the feature source is
\* loaded, normalized and clustered, and merged with the recognition output.
InitDemographic ==
    \E ids \in AnyOrderIdSeqs, S \in SpeakerSets :
        \E predicted \in [1..Len(ids) -> ClusterIds] :
            LET dp == PreparedData(FeatureFile(ids))
                fm == FilepathManager_init(Config(<<ReadStyle, HmiStyle>>))
                performance == AsrPerformanceData_init(fm, ReadStyle.id,
                                                       Disk(S, S, "varied"))
            IN  /\ pc = "merged"
                /\ data_prep = dp
                /\ grouping = Clustering_init(dp, predicted)
                /\ filepath_manager = fm
                /\ asr_performance = performance
                /\ merged_data = merge_data(Clustering_init(dp, predicted),
                                            performance.data)
                /\ call = [op |-> "GroupingPerformance"]
                /\ result = Ok
                /\ bias_measure = Null
                /\ error_rates_per_group = Null

\* demographic_grouping = PredefinedGrouping(data_prep=data_prep,
\*                                           group_labels=demographic_groups)
NewDemographicGrouping ==
    /\ pc = "merged"
    /\ LET numeric_cols == [k \in DOMAIN data_prep.custom_features |->
                               data_prep.custom_features[k].field]
           group_labels == demographic_groups(merged_data, numeric_cols)
           g == PredefinedGrouping_init(data_prep, group_labels)
       IN  /\ call' = [op |-> "PredefinedGrouping", group_labels |-> group_labels]
           /\ result' = IF IsError(g) THEN g ELSE Ok
           /\ grouping' = IF IsError(g) THEN grouping ELSE g
           /\ pc' = IF IsError(g) THEN "failed" ELSE "grouped"
    /\ UNCHANGED <<metricVars, data_prep, asr_performance, merged_data, filepath_manager>>

NextDemographic == NewDemographicGrouping

SpecDemographic == InitDemographic /\ [][NextDemographic]_vars

(***************************************************************************)
(* Loading feature sources of every layout                                 *)
(***************************************************************************)
MaxPrepRows == 2

PitchField == "Mean Pitch (Hz)"

Layouts == {"id first", "id last", "no id", "no rate"}

\* The columns of a source with the duration fields D.
SourceColumns(D, layout) ==
    (IF layout = "id first" \/ layout = "no rate" THEN <<"Filename">> ELSE <<>>)
        \o SelectSeq(DurationFields, LAMBDA f : f \in D)
        \o (IF layout = "no rate" THEN <<>> ELSE <<ArticulationRate>>)
        \o <<PitchField>>
        \o (IF layout = "id last" THEN <<"Filename">> ELSE <<>>)

DurationIndex(f) == CHOOSE k \in DOMAIN DurationFields : DurationFields[k] = f

\* Row i of a source: every duration field has a value of its own, and the
\* articulation rate of the row is the given one.
SourceRow(columns, i, rate) ==
    [c \in Range(columns) |->
        IF c = "Filename" THEN FileName(i)
        ELSE IF c = ArticulationRate THEN rate
        ELSE IF c = PitchField THEN FromInt(100 + i)
        ELSE Frac((10 * i) + DurationIndex(c), 100)]

RateValues == {FromInt(30), FromInt(90)}

SourceFiles ==
    {DataFrame(SourceColumns(D, layout),
               [i \in DOMAIN rates |-> SourceRow(SourceColumns(D, layout), i, rates[i])]) :
        D \in SUBSET Range(DurationFields), layout \in Layouts,
        rates \in SeqsUpTo(RateValues, MaxPrepRows)}

FeatureDicts ==
    {Null, Dict(<<>>),
     Dict(<<[field |-> PitchField, label |-> "Pitch", unit |-> "Hertz"],
            [field |-> "Mean F1 E (bark)", label |-> "F1", unit |-> "Bark"]>>)}

DropLists ==
    {{}, {PitchField}, {"Filename"}, {"Mean Duration O (s)", "Mean F1 E (bark)"}}

PrepSources ==
    {[file |-> f, speaking_style |-> "read", feature_dict |-> fd, dropcolumns |-> dc] :
        f \in SourceFiles, fd \in FeatureDicts, dc \in DropLists}

LoadSource == Load(PrepSources)

NextPrep == LoadSource

SpecPrep == Init /\ [][NextPrep]_vars

(***************************************************************************)
(* normalize_data with and without the normality check, on feature sources *)
(* with two feature columns                                                *)
(***************************************************************************)
NormalityRow(i) ==
    [c \in {"Filename", ArticulationRate, PitchField} |->
        IF c = "Filename" THEN FileName(i)
        ELSE IF c = ArticulationRate THEN FromInt(200 + ((7 * i) % 5))
        ELSE FromInt(100 + (10 * i))]

NormalitySources ==
    {[file |-> DataFrame(<<"Filename", ArticulationRate, PitchField>>,
                   [k \in DOMAIN ids |-> NormalityRow(ids[k])]),
      speaking_style |-> "read", feature_dict |-> Dict(<<>>), dropcolumns |-> {}] :
        ids \in FeatureIdSeqs}

LoadNormalitySource == Load(NormalitySources)

\* data_prep.normalize_data(scaler=scaler, check_normality=True)
NormalizeDataCheckingNormality ==
    /\ pc = "loaded"
    /\ \E scaler \in Scalers, pandas \in PandasVersions,
          is_normal \in [1..Len(data_prep.custom_features) -> BOOLEAN] :
          LET done == normalize_data_checking(data_prep, scaler, is_normal, pandas)
          IN  /\ call' = [op |-> "normalize_data", scaler |-> scaler,
                          check_normality |-> TRUE, is_normal |-> is_normal]
              /\ result' = IF IsError(done) THEN done
                           ELSE [type |-> "ok", printed |-> done.printed]
              /\ data_prep' = IF IsError(done) THEN data_prep ELSE done.self
              /\ pc' = IF IsError(done) THEN "failed" ELSE pc
    /\ UNCHANGED <<metricVars, grouping, asr_performance, merged_data, filepath_manager>>

NextNormality ==
    \/ LoadNormalitySource
    \/ NormalizeData
    \/ NormalizeDataCheckingNormality

SpecNormality == Init /\ [][NextNormality]_vars

(***************************************************************************)
(* The filepath manager under every configuration of speaking styles       *)
(***************************************************************************)
\* The speaking styles of a configuration: none, one, or both in either order.
StyleLists ==
    {<<>>, <<ReadStyle>>, <<HmiStyle>>, <<ReadStyle, HmiStyle>>, <<HmiStyle, ReadStyle>>}

\* The ids asked for; "Unknown Style" is the default of AsrPerformanceData.
StyleIds == {ReadStyle.id, HmiStyle.id, "Unknown Style"}

NewFilepathManager ==
    /\ pc = "start"
    /\ \E speaking_styles \in StyleLists :
          /\ call' = [op |-> "FilepathManager", speaking_styles |-> speaking_styles]
          /\ filepath_manager' = FilepathManager_init(Config(speaking_styles))
    /\ result' = Ok
    /\ pc' = "configured"
    /\ UNCHANGED <<metricVars, data_prep, grouping, asr_performance, merged_data>>

\* A request to the manager: its answer, or the exception that ends the run.
Request(op, speaking_style_id, answer) ==
    /\ call' = [op |-> op, speaking_style_id |-> speaking_style_id]
    /\ result' = answer
    /\ pc' = IF IsError(answer) THEN "failed" ELSE pc
    /\ UNCHANGED <<metricVars, objVars>>

GetErrorRatePath ==
    /\ pc = "configured"
    /\ \E id \in StyleIds, g \in Range(speaker_groups), m \in Range(asr_models) :
          Request("get_error_rate_path", id, get_error_rate_path(filepath_manager, id, g, m))

GetMetaPath ==
    /\ pc = "configured"
    /\ \E id \in StyleIds : Request("get_meta_path", id, get_meta_path(filepath_manager, id))

GetSpeakingStyleData ==
    /\ pc = "configured"
    /\ \E id \in StyleIds :
          Request("get_speaking_style_data", id, get_speaking_style_data(filepath_manager, id))

NewAsrPerformanceData ==
    /\ pc = "configured"
    /\ ConstructAsrPerformanceData(filepath_manager, StyleIds)
    /\ UNCHANGED <<metricVars, data_prep, grouping, merged_data, filepath_manager>>

GetSpeakingStyle ==
    /\ pc = "built"
    /\ asr_performance.type = "AsrPerformanceData"
    /\ call' = [op |-> "get_speaking_style"]
    /\ result' = [type |-> "str", v |-> get_speaking_style(asr_performance)]
    /\ pc' = "reported"
    /\ UNCHANGED <<metricVars, objVars>>

NextPaths ==
    \/ NewFilepathManager
    \/ GetErrorRatePath
    \/ GetMetaPath
    \/ GetSpeakingStyleData
    \/ NewAsrPerformanceData
    \/ GetSpeakingStyle

SpecPaths == Init /\ [][NextPaths]_vars

(***************************************************************************)
(* Claims about DataPrep                                                   *)
(***************************************************************************)
\* C10: after a load, every duration field of the source holds, in every row,
\* duration x articulation rate / 60 with the rate of that row (once), and
\* every other column holds what the source holds; a duration field that the
\* source lacks is not created and makes no load fail.
C10_DurationNormalization ==
    (call.op = "DataPrep") =>
        LET src == call.args.file
            present == Range(src.columns) \cap Range(DurationFields)
        IN  /\ (pc = "loaded") =>
                  /\ Len(data_prep.data.rows) = Len(src.rows)
                  /\ Range(data_prep.data.columns) = Range(src.columns) \ call.args.dropcolumns
                  /\ \A i \in DOMAIN src.rows : \A c \in Range(data_prep.data.columns) :
                        IF c \in present
                        THEN FMul(data_prep.data.rows[i][c], FromInt(60))
                                = FMul(src.rows[i][c], src.rows[i][ArticulationRate])
                        ELSE data_prep.data.rows[i][c] = src.rows[i][c]
            /\ (/\ HasColumn(src, ArticulationRate)
                /\ "Filename" \in Range(src.columns) \ call.args.dropcolumns
                /\ call.args.feature_dict.type = "dict") => pc = "loaded"

\* A source with the field of O and without the field of E, whose first row
\* has the duration 11/100 and the rate 90: 11/100 x 90 / 60 = 33/200.
C10_Witness ==
    /\ call.op = "DataPrep"
    /\ pc = "loaded"
    /\ HasColumn(call.args.file, "Mean Duration O (s)")
    /\ ~HasColumn(call.args.file, "Mean Duration E (s)")
    /\ HasColumn(data_prep.data, "Mean Duration O (s)")
    /\ Len(data_prep.data.rows) >= 1
    /\ call.args.file.rows[1]["Mean Duration O (s)"] = Frac(11, 100)
    /\ call.args.file.rows[1][ArticulationRate] = FromInt(90)
    /\ data_prep.data.rows[1]["Mean Duration O (s)"] = Frac(33, 200)

(***************************************************************************)
(* Claims about the groupings                                              *)
(***************************************************************************)
IsGrouping(g) == g.type \in {"Clustering", "PredefinedGrouping"}

RECURSIVE ParseDigits(_)
ParseDigits(t) ==
    IF t = <<>> THEN 0 ELSE (10 * ParseDigits(SubSeq(t, 1, Len(t) - 1))) + (t[Len(t)] - 48)

NumberIn(cell) == IF cell.type = "str" THEN ParseDigits(cell.v) ELSE cell.v

RECURSIVE SumSizes(_)
SumSizes(rows) == IF rows = <<>> THEN 0 ELSE NumberIn(Head(rows)[2]) + SumSizes(Tail(rows))

\* C8: get_group_sizes lists every distinct label once, in ascending order,
\* with the number of rows that carry it; the counts sum to the number of
\* rows of the labeled table.
C8_GroupSizes ==
    (call.op = "get_group_sizes") =>
        LET sizes == result.rows
            df == grouping.data_with_group_labels
            field == grouping.label_fieldname
        IN  /\ {sizes[k][1] : k \in DOMAIN sizes} = {df.rows[i][field] : i \in DOMAIN df.rows}
            /\ \A k \in 1..(Len(sizes) - 1) : CellLess(sizes[k][1], sizes[k + 1][1])
            /\ \A k \in DOMAIN sizes :
                  NumberIn(sizes[k][2])
                      = Cardinality({i \in DOMAIN df.rows : df.rows[i][field] = sizes[k][1]})
            /\ SumSizes(sizes) = Len(df.rows)

\* Labels B, A, B: two groups, the later label first in the table.
C8_Witness ==
    /\ call.op = "get_group_sizes"
    /\ grouping.group_labels = <<GroupName(2), GroupName(1), GroupName(2)>>
    /\ Len(result.rows) = 2
    /\ NumberIn(result.rows[2][2]) = 2

\* C9: every group label held by a grouping is a string, in the label
\* sequence and in the label column of the labeled table.
C9_LabelsAreStrings ==
    IsGrouping(grouping) =>
        /\ \A i \in DOMAIN grouping.group_labels : grouping.group_labels[i].type = "str"
        /\ \A i \in DOMAIN grouping.data_with_group_labels.rows :
              grouping.data_with_group_labels.rows[i][grouping.label_fieldname].type = "str"

(***************************************************************************)
(* Claims about the joins and the group WERs                               *)
(***************************************************************************)
PairRows(df, field, m, l) ==
    {i \in DOMAIN df.rows : df.rows[i]["Model"] = m /\ df.rows[i][field] = l}

RECURSIVE SumOver(_, _, _)
SumOver(df, S, c) ==
    IF S = {} THEN 0
    ELSE LET i == CHOOSE j \in S : TRUE
         IN  df.rows[i][c] + SumOver(df, S \ {i}, c)

\* C3: get_group_WERs gives one row per (model, group) pair of the
\* AnalysisTable, whose WER is 100 x (sum of Sub + Del + Ins) / (sum of # Wrd)
\* over the rows of the pair.
C3_GroupWERs ==
    (call.op = "get_group_WERs") =>
        LET field == call.label_fieldname
            wers == result.rows
            pairs == {<<merged_data.rows[i]["Model"], merged_data.rows[i][field]>> :
                         i \in DOMAIN merged_data.rows}
        IN  /\ result.type = "ok"
            /\ {<<wers[k].Model, wers[k].Label>> : k \in DOMAIN wers} = pairs
            /\ Len(wers) = Cardinality(pairs)
            /\ \A k \in DOMAIN wers :
                  LET S == PairRows(merged_data, field, wers[k].Model, wers[k].Label)
                      errors == SumOver(merged_data, S, "Sub") + SumOver(merged_data, S, "Del")
                                   + SumOver(merged_data, S, "Ins")
                  IN  wers[k].WER = Frac(100 * errors, SumOver(merged_data, S, "# Wrd"))

\* A group of two speakers with 10 and 30 words: the ratio of the sums is
\* 100 x 6 / 40 = 15, the mean of the two WERs is 100 x (2/10 + 4/30) / 2.
C3_Witness ==
    /\ call.op = "get_group_WERs"
    /\ \E k \in DOMAIN result.rows :
          LET S == PairRows(merged_data, call.label_fieldname,
                            result.rows[k].Model, result.rows[k].Label)
          IN  /\ result.rows[k].Model = M1
              /\ {merged_data.rows[i]["# Wrd"] : i \in S} = {10, 30}
              /\ result.rows[k].WER = FromInt(15)

FilenamesOf(df) == {df.rows[i]["Filename"] : i \in DOMAIN df.rows}

\* C4: merge_data is an inner join on 'Filename': the identifiers of the
\* AnalysisTable are those found both in the labeled feature rows and in the
\* recognition output, and no error is raised for the others.
C4_InnerJoinOnFilename ==
    (pc = "merged") =>
        /\ merged_data.type = "DataFrame"
        /\ FilenamesOf(merged_data)
              = FilenamesOf(grouping.data_with_group_labels)
                    \cap FilenamesOf(asr_performance.data)
        /\ \A i \in DOMAIN merged_data.rows :
              /\ \E j \in DOMAIN asr_performance.data.rows :
                    \A c \in Range(asr_performance.data.columns) :
                        merged_data.rows[i][c] = asr_performance.data.rows[j][c]
              /\ \E j \in DOMAIN grouping.data_with_group_labels.rows :
                    \A c \in Range(grouping.data_with_group_labels.columns) :
                        merged_data.rows[i][c] = grouping.data_with_group_labels.rows[j][c]

\* Features of {1, 2, 3} joined with the recognition output of {2, 3, 4}.
C4_Witness ==
    /\ pc = "merged"
    /\ call.op = "GroupingPerformance"
    /\ result = Ok
    /\ FilenamesOf(grouping.data_with_group_labels) = {FileName(1), FileName(2), FileName(3)}
    /\ FilenamesOf(asr_performance.data) = {FileName(2), FileName(3), FileName(4)}
    /\ FilenamesOf(merged_data) = {FileName(2), FileName(3)}

Min(a, b) == IF a <= b THEN a ELSE b

\* The number of rows of the concatenated error data of the last build.
CombinedRows ==
    Len(CombinedErrorData(speaker_groups, asr_models, call.files).rows)

UniqueKey(df, on) ==
    \A i, j \in DOMAIN df.rows : df.rows[i][on] = df.rows[j][on] => i = j

\* C5 as stated: after each inner join the number of rows is at most the
\* least of the row counts of the two inputs.
C5_AtMostMinOfInputs ==
    /\ (call.op = "AsrPerformanceData" /\ result = Ok) =>
          Len(asr_performance.data.rows) <= Min(Len(call.meta_data.rows), CombinedRows)
    /\ (pc = "merged") =>
          Len(merged_data.rows)
              <= Min(Len(grouping.data_with_group_labels.rows), Len(asr_performance.data.rows))

\* C5 amended: after each inner join the number of rows is at most the
\* product of the row counts of the two inputs, and at most the row count of
\* the error data / the recognition output when the metadata holds each
\* 'SPKR' once / the labeled feature rows hold each 'Filename' once.
C5_AtMostTheManySide ==
    /\ (call.op = "AsrPerformanceData" /\ result = Ok) =>
          /\ Len(asr_performance.data.rows) <= Len(call.meta_data.rows) * CombinedRows
          /\ UniqueKey(call.meta_data, "SPKR") =>
                Len(asr_performance.data.rows) <= CombinedRows
    /\ (pc = "merged") =>
          /\ Len(merged_data.rows)
                <= Len(grouping.data_with_group_labels.rows) * Len(asr_performance.data.rows)
          /\ UniqueKey(grouping.data_with_group_labels, "Filename") =>
                Len(merged_data.rows) <= Len(asr_performance.data.rows)

\* Three feature rows merged with six recognition rows (one per speaker per
\* ASR model) into six rows.
C5_Witness ==
    /\ pc = "merged"
    /\ UniqueKey(grouping.data_with_group_labels, "Filename")
    /\ Len(grouping.data_with_group_labels.rows) = 3
    /\ Len(asr_performance.data.rows) = 6
    /\ Len(merged_data.rows) = 6

(***************************************************************************)
(* Claims about loading: missing columns, dropped columns, metadata        *)
(***************************************************************************)
\* The duration fields a source holds.
DurationsIn(df) == Range(df.columns) \cap Range(DurationFields)

\* C11: loading a source that has a phoneme duration field and no
\* 'Mean Articulation Rate (phpm)' column succeeds and leaves the duration
\* fields as the source holds them (nothing else stands in the way of the
\* load: the identifier is kept and a feature mapping is given).
C11_MissingRateIsSkipped ==
    (/\ call.op = "DataPrep"
     /\ DurationsIn(call.args.file) # {}
     /\ ~HasColumn(call.args.file, ArticulationRate)
     /\ "Filename" \in Range(call.args.file.columns) \ call.args.dropcolumns
     /\ call.args.feature_dict.type = "dict") =>
        /\ pc = "loaded"
        /\ \A i \in DOMAIN call.args.file.rows :
              \A c \in DurationsIn(call.args.file) \cap Range(data_prep.data.columns) :
                  data_prep.data.rows[i][c] = call.args.file.rows[i][c]

\* C12: a load that nothing else stands in the way of (the source has the
\* identifier, the rate column where a duration field needs it, and a feature
\* mapping is given) succeeds for every dropColumns list, and keeps exactly
\* the columns of the source that the list does not name, and the identifier
\* 'Filename' also when the list names it.
C12_IdentifierNeverDropped ==
    (/\ call.op = "DataPrep"
     /\ HasColumn(call.args.file, "Filename")
     /\ (DurationsIn(call.args.file) = {} \/ HasColumn(call.args.file, ArticulationRate))
     /\ call.args.feature_dict.type = "dict") =>
        /\ pc = "loaded"
        /\ HasColumn(data_prep.data, "Filename")
        /\ Range(data_prep.data.columns)
              = Range(call.args.file.columns) \ (call.args.dropcolumns \ {"Filename"})

\* C13: loading a source without the identifier column 'Filename' fails with
\* the error for a missing column (pandas' KeyError, which nothing catches)
\* and leaves no DataPrep object.
C13_MissingIdentifierFails ==
    (call.op = "DataPrep" /\ ~HasColumn(call.args.file, "Filename")) =>
        /\ pc = "failed"
        /\ result.type = "KeyError"
        /\ data_prep = Null

\* A source without 'Filename' that has the rate column: the load gets as far
\* as reading the identifier and fails there.
C13_Witness ==
    /\ call.op = "DataPrep"
    /\ ~HasColumn(call.args.file, "Filename")
    /\ HasColumn(call.args.file, ArticulationRate)
    /\ Len(call.args.file.rows) = 2
    /\ call.args.dropcolumns = {}
    /\ result = KeyError("Filename")
    /\ data_prep = Null

\* The entry of a field in a feature mapping given as a sequence of
\* [field, label, unit], or Null when the mapping has none.
EntryOf(items, f) ==
    IF \E k \in DOMAIN items : items[k].field = f
    THEN items[CHOOSE k \in DOMAIN items : items[k].field = f]
    ELSE Null

\* C14: a load of a source that has the identifier and keeps it (and the rate
\* column where a duration field needs it) succeeds with or without a
\* supplied mapping, wherever the identifier sits, and the feature metadata
\* then has exactly one entry per remaining column other than 'Filename':
\* the supplied (label, unit) when the supplied mapping has the field, and
\* (field, 'Value') otherwise.
C14_FeatureMetadata ==
    (/\ call.op = "DataPrep"
     /\ "Filename" \in Range(call.args.file.columns) \ call.args.dropcolumns
     /\ (DurationsIn(call.args.file) = {} \/ HasColumn(call.args.file, ArticulationRate))) =>
        /\ pc = "loaded"
        /\ LET supplied == IF call.args.feature_dict.type = "dict"
                           THEN call.args.feature_dict.items ELSE <<>>
               features == data_prep.custom_features
           IN  /\ {features[k].field : k \in DOMAIN features}
                     = Range(data_prep.data.columns) \ {"Filename"}
               /\ Len(features) = Len(data_prep.data.columns) - 1
               /\ \A k \in DOMAIN features :
                     features[k] =
                         IF EntryOf(supplied, features[k].field) # Null
                         THEN EntryOf(supplied, features[k].field)
                         ELSE [field |-> features[k].field, label |-> features[k].field,
                               unit |-> "Value"]

(***************************************************************************)
(* Claims about the normalized matrix                                      *)
(***************************************************************************)
HasMatrix(dp) == dp.type = "DataPrep" /\ dp.normalized_data.type = "ndarray"

\* C15: every normalize_data(scaler) that returns leaves the data as it was
\* and stores the scaler fit on and applied to the feature columns of that
\* data, whatever matrix was stored before (so a second call with the same
\* scaler stores the same matrix again).
C15_NormalizeRecomputes ==
    [][(call'.op = "normalize_data" /\ result' = Ok) =>
          /\ data_prep'.data = data_prep.data
          /\ data_prep'.custom_features = data_prep.custom_features
          /\ data_prep'.normalized_data
                = [type |-> "ndarray",
                   X |-> fit_transform(call'.scaler, FeatureMatrix(data_prep))]
          /\ (call.op = "normalize_data" /\ call.scaler = call'.scaler) =>
                data_prep'.normalized_data = data_prep.normalized_data]_vars

\* Three pitch values 110, 120, 130 normalized with the robust scaler after
\* the min-max matrix (0, 1/2, 1) was stored: the matrix is (-1, 0, 1).
C15_Witness ==
    /\ call.op = "normalize_data"
    /\ call.scaler = "RobustScaler"
    /\ result = Ok
    /\ Len(data_prep.data.rows) = 3
    /\ FeatureMatrix(data_prep) = <<<<FromInt(110)>>, <<FromInt(120)>>, <<FromInt(130)>>>>
    /\ data_prep.normalized_data.X = <<<<FromInt(-1)>>, <<FromInt(0)>>, <<FromInt(1)>>>>
    /\ MinMaxScaler_fit_transform(FeatureMatrix(data_prep))
          = <<<<FromInt(0)>>, <<Frac(1, 2)>>, <<FromInt(1)>>>>

MatchedErrorRows ==
    {t \in UNION {{<<key[1], key[2], k>> : k \in DOMAIN call.files[key].rows} :
                     key \in DOMAIN call.files} :
        \E j \in DOMAIN call.meta_data.rows :
              call.meta_data.rows[j]["SPKR"]
                  = call.files[<<t[1], t[2]>>].rows[t[3]]["SPKR"]}

\* Row i of the built table is row t of the files, tagged with its model.
IsErrorRow(i, t) ==
    /\ asr_performance.data.rows[i]["Model"] = t[2]
    /\ \A c \in Range(ErrorColumns) :
          asr_performance.data.rows[i][c] = call.files[<<t[1], t[2]>>].rows[t[3]][c]

\* C17: a build that returns has read one error table per (speaker group,
\* ASR model) of the configuration, and its table holds exactly the rows of
\* those tables whose 'SPKR' is in the metadata, once each, tagged with the
\* model of the table they come from and joined with the metadata row of
\* their speaker; speakers found on one side only are left out.
C17_BuildDataframe ==
    (call.op = "AsrPerformanceData" /\ result = Ok) =>
        LET data == asr_performance.data
        IN  /\ DOMAIN call.files
                  = {<<g, m>> : g \in Range(filepath_manager.speaker_groups),
                                m \in Range(filepath_manager.asr_models)}
            /\ Len(data.rows) = Cardinality(MatchedErrorRows)
            /\ \A t \in MatchedErrorRows : \E i \in DOMAIN data.rows : IsErrorRow(i, t)
            /\ \A i \in DOMAIN data.rows :
                  /\ \E t \in MatchedErrorRows : IsErrorRow(i, t)
                  /\ \E j \in DOMAIN call.meta_data.rows :
                        \A c \in Range(call.meta_data.columns) :
                            data.rows[i][c] = call.meta_data.rows[j][c]

\* Metadata of the speakers 2, 3, 4 and error counts of the speakers 1, 2, 3
\* under two models: the four rows of the speakers 2 and 3.
C17_Witness ==
    /\ call.op = "AsrPerformanceData"
    /\ result = Ok
    /\ {call.meta_data.rows[j]["SPKR"] : j \in DOMAIN call.meta_data.rows}
          = {SpeakerId(2), SpeakerId(3), SpeakerId(4)}
    /\ Len(CombinedErrorData(speaker_groups, asr_models, call.files).rows) = 6
    /\ Len(asr_performance.data.rows) = 4
    /\ {asr_performance.data.rows[i]["SPKR"] : i \in DOMAIN asr_performance.data.rows}
          = {SpeakerId(2), SpeakerId(3)}
    /\ \E i \in DOMAIN asr_performance.data.rows : asr_performance.data.rows[i]["Model"] = M2

PathRequests == {"get_error_rate_path", "get_meta_path", "get_speaking_style_data"}

\* The style the manager should answer a request for id with: the style of
\* that id, or the first style of the configuration when there is none.
ExpectedStyle(id) ==
    LET styles == filepath_manager.speaking_styles_data
    IN  IF \E k \in DOMAIN styles : styles[k].key = id
        THEN styles[CHOOSE k \in DOMAIN styles : styles[k].key = id].value
        ELSE styles[1].value

\* C18: the manager keeps the speaking styles in the order of the
\* configuration, and with at least one style configured every request
\* (get_error_rate_path, get_meta_path, get_speaking_style_data) returns
\* without error: for a configured id with the style of that id, for any other
\* id with the first style of the configuration.
C18_FallbackToFirstStyle ==
    /\ (call.op = "FilepathManager") =>
          /\ Len(filepath_manager.speaking_styles_data) = Len(call.speaking_styles)
          /\ \A k \in DOMAIN call.speaking_styles :
                /\ filepath_manager.speaking_styles_data[k].key = call.speaking_styles[k].id
                /\ filepath_manager.speaking_styles_data[k].value.abbreviation
                      = call.speaking_styles[k].abbreviation
                /\ filepath_manager.speaking_styles_data[k].value.name
                      = call.speaking_styles[k].name
    /\ (call.op \in PathRequests /\ filepath_manager.speaking_styles_data # <<>>) =>
          /\ pc = "configured"
          /\ ~IsError(result)
          /\ (call.op = "get_speaking_style_data") => result = ExpectedStyle(call.speaking_style_id)
          /\ (call.op = "get_meta_path") =>
                /\ result.template = filepath_manager.path_templates.meta_file
                /\ result.speaking_style = ExpectedStyle(call.speaking_style_id).abbreviation
          /\ (call.op = "get_error_rate_path") =>
                /\ result.template = filepath_manager.path_templates.error_rate_file
                /\ result.speaking_style = ExpectedStyle(call.speaking_style_id).abbreviation

\* The styles HMI and Rd configured in that order, and the metadata path of
\* the id "Unknown Style" asked for: the path of HMI.
C18_Witness ==
    /\ call.op = "get_meta_path"
    /\ call.speaking_style_id = "Unknown Style"
    /\ Len(filepath_manager.speaking_styles_data) = 2
    /\ filepath_manager.speaking_styles_data[1].key = HmiStyle.id
    /\ result.type = "path"
    /\ result.speaking_style = HmiStyle.abbreviation

\* C19: with no speaking style configured, every request to the manager and
\* the construction of an AsrPerformanceData end with an exception
\* (StopIteration, which nothing catches) and the run is over; no
\* AsrPerformanceData results.
C19_NoStylesFails ==
    (/\ call.op \in PathRequests \cup {"AsrPerformanceData"}
     /\ filepath_manager.speaking_styles_data = <<>>) =>
        /\ pc = "failed"
        /\ result = StopIteration
        /\ asr_performance = Null

\* An AsrPerformanceData constructed on a manager without styles.
C19_Witness ==
    /\ call.op = "AsrPerformanceData"
    /\ filepath_manager.type = "FilepathManager"
    /\ filepath_manager.speaking_styles_data = <<>>
    /\ pc = "failed"
    /\ result = StopIteration
    /\ asr_performance = Null

(***************************************************************************)
(* Claims about the relative difference with a reference of 0              *)
(***************************************************************************)
\* C20: with the relative difference measure, compute on a table in which the
\* least WER of a model is 0 returns without error, and no bias of that model
\* is a finite number: the per-group bias is NaN (0/0) for a group at WER 0
\* and +infinity (x/0) for any other group, and the overall bias of the model
\* is +infinity when some group has a WER above 0 and NaN when none has.
C20_ZeroReferencePropagates ==
    (pc = "done" /\ bias_measure = "RelDiffBias") =>
        \A m \in {r.Model : r \in Range(error_rates_per_group)} :
            (MinWerOf(error_rates_per_group, m) = FromInt(0)) =>
                /\ result.type = "ok"
                /\ \A r \in Range(result.bias_df) :
                      (r.Model = m) =>
                          /\ ~IsFinite(r.Bias)
                          /\ r.Bias = IF r.WER = FromInt(0) THEN NaN ELSE Inf
                /\ \A e \in Range(result.overall_bias_per_model_df) :
                      (e.Model = m) =>
                          /\ ~IsFinite(e.Value)
                          /\ e.Value = IF \E r \in Range(error_rates_per_group) :
                                              r.Model = m /\ r.WER # FromInt(0)
                                        THEN Inf ELSE NaN

\* A model with the group WERs 0 and 10: the bias rows are NaN and
\* +infinity, the overall bias is +infinity.
C20_Witness ==
    /\ pc = "done"
    /\ bias_measure = "RelDiffBias"
    /\ result.type = "ok"
    /\ {r.WER : r \in {x \in Range(error_rates_per_group) : x.Model = M1}}
          = {FromInt(0), FromInt(10)}
    /\ \E r \in Range(result.bias_df) : r.Model = M1 /\ r.Bias = NaN
    /\ \E r \in Range(result.bias_df) : r.Model = M1 /\ r.Bias = Inf
    /\ \E e \in Range(result.overall_bias_per_model_df) : e.Model = M1 /\ e.Value = Inf

(***************************************************************************)
(* Claims about the bias of the reference group                            *)
(***************************************************************************)
\* The rows of the per-group bias table at the least WER of their model.
ReferenceRows ==
    {r \in Range(result.bias_df) :
        r.WER = MinWerOf(error_rates_per_group, r.Model)}

MaxCount == 2

MaxWords == 20

InitWer ==
    /\ pc = "ready"
    /\ call \in {[op |-> "word_error_rate", insertions |-> i, deletions |-> d,
                  substitutions |-> s, words |-> w] :
                    i \in 0..MaxCount, d \in 0..MaxCount, s \in 0..MaxCount,
                    w \in 1..MaxWords}
    /\ result = Null
    /\ bias_measure = Null
    /\ error_rates_per_group = Null
    /\ data_prep = Null
    /\ grouping = Null
    /\ asr_performance = Null
    /\ merged_data = Null
    /\ filepath_manager = Null

WordErrorRate ==
    /\ pc = "ready"
    /\ call.op = "word_error_rate"
    /\ result' = [type |-> "float",
                  v |-> word_error_rate(call.insertions, call.deletions,
                                        call.substitutions, call.words)]
    /\ pc' = "done"
    /\ UNCHANGED <<metricVars, call, objVars>>

NextWer == WordErrorRate

SpecWer == InitWer /\ [][NextWer]_vars

(***************************************************************************)
(* Claims about word_error_rate                                            *)
(***************************************************************************)
\* C22: on non-negative counts with words > 0, the rate returned for a call
\* is not above the rate of the same call with more insertions, more
\* deletions or more substitutions, and (with a positive numerator) not below
\* the rate of the same call with more words; insertions 1, deletions 1,
\* substitutions 2 (S=2, D=1, I=1) over 20 words give exactly 20.
C22_WerMonotone ==
    (pc = "done" /\ call.op = "word_error_rate") =>
        LET i == call.insertions
            d == call.deletions
            s == call.substitutions
            w == call.words
        IN  /\ IsFinite(result.v)
            /\ \A k \in 0..MaxCount :
                  /\ (k >= i) => ~FLess(word_error_rate(k, d, s, w), result.v)
                  /\ (k >= d) => ~FLess(word_error_rate(i, k, s, w), result.v)
                  /\ (k >= s) => ~FLess(word_error_rate(i, d, k, w), result.v)
            /\ \A k \in 1..MaxWords :
                  (k >= w /\ i + d + s > 0) =>
                      ~FLess(result.v, word_error_rate(i, d, s, k))
            /\ (i = 1 /\ d = 1 /\ s = 2 /\ w = 20) => result.v = FromInt(20)

\* The case of the specification, S=2, D=1, I=1, W=20, with the result 20.
C22_Witness ==
    /\ pc = "done"
    /\ call.op = "word_error_rate"
    /\ call.insertions = 1 /\ call.deletions = 1 /\ call.substitutions = 2
    /\ call.words = 20
    /\ result = [type |-> "float", v |-> FromInt(20)]

(***************************************************************************)
(* Claims about the cross tabulations                                      *)
(***************************************************************************)
\* The first row of every speaker ('Filename') of a table.
FirstRows(df) ==
    {i \in DOMAIN df.rows :
        \A j \in 1..(i - 1) : df.rows[j]["Filename"] # df.rows[i]["Filename"]}

\* The speakers whose first row holds the value vx in column x, and those
\* that also hold vy in column y.
SpeakersWith(df, x, vx) == {i \in FirstRows(df) : df.rows[i][x] = vx}

SpeakersWithBoth(df, x, vx, y, vy) ==
    {i \in SpeakersWith(df, x, vx) : df.rows[i][y] = vy}

\* Every speaker has the same value of column x in all of its rows.
LabelPerSpeaker(df, x) ==
    \A i, j \in DOMAIN df.rows :
        (df.rows[i]["Filename"] = df.rows[j]["Filename"]) => df.rows[i][x] = df.rows[j][x]

\* C23: the table returned by get_group_distribution(fieldA, fieldB) has one
\* row per fieldA value of the speakers (of the merged table, when every
\* speaker has one fieldA value), every row sums to 100, and each cell is
\* 100 x (speakers with that fieldA and fieldB value) / (speakers with that
\* fieldA value).
C23_PercentRowsSumTo100 ==
    (pc = "merged" /\ call.op = "get_group_distribution") =>
        LET x == call.x_label_fieldname
            y == call.y_label_fieldname
        IN  /\ result.type = "crosstab"
            /\ Range(result.index) = {merged_data.rows[i][x] : i \in FirstRows(merged_data)}
            /\ Len(result.index) = Cardinality(Range(result.index))
            /\ LabelPerSpeaker(merged_data, x) =>
                  Range(result.index)
                      = {merged_data.rows[i][x] : i \in DOMAIN merged_data.rows}
            /\ \A i \in DOMAIN result.index :
                  /\ FSum(result.values[i]) = FromInt(100)
                  /\ \A j \in DOMAIN result.columns :
                        result.values[i][j]
                            = Frac(100 * Cardinality(SpeakersWithBoth(merged_data,
                                        x, result.index[i], y, result.columns[j])),
                                   Cardinality(SpeakersWith(merged_data, x, result.index[i])))

\* A table of two rows and two columns over speakers with a row per ASR
\* model each, with a cell that is neither 0 nor 100.
C23_Witness ==
    /\ pc = "merged"
    /\ call.op = "get_group_distribution"
    /\ result.type = "crosstab"
    /\ Len(result.index) = 2
    /\ Len(result.columns) = 2
    /\ Len(merged_data.rows) > Cardinality(FirstRows(merged_data))
    /\ \E i \in DOMAIN result.index :
          result.values[i] = <<FromInt(50), FromInt(50)>>

\* The cells of a row of the counts table, without its last column 'Total'.
CountCells(row) == SubSeq(row, 1, Len(row) - 1)

\* C25: get_group_counts_comparison(fieldA, fieldB) counts every speaker
\* ('Filename') of the merged table once, by the labels of its first row,
\* however many rows (ASR models) it has: each cell is the number of speakers
\* with that pair of labels, the last column 'Total' of each row is the sum
\* of the cells of the row, and the totals sum to the number of distinct
\* speakers of the merged table.
C25_CountsEachSpeakerOnce ==
    (pc = "merged" /\ call.op = "get_group_counts_comparison") =>
        LET x == call.x_label_fieldname
            y == call.y_label_fieldname
            n == Len(result.columns)
        IN  /\ result.type = "crosstab"
            /\ n >= 1
            /\ result.columns[n] = Total
            /\ \A i \in DOMAIN result.index :
                  /\ Len(result.values[i]) = n
                  /\ \A j \in 1..(n - 1) :
                        result.values[i][j]
                            = Cardinality(SpeakersWithBoth(merged_data,
                                  x, result.index[i], y, result.columns[j]))
                  /\ result.values[i][n] = RowSum(CountCells(result.values[i]))
            /\ RowSum([i \in DOMAIN result.index |-> result.values[i][n]])
                  = Cardinality(FilenamesOf(merged_data))
            /\ \A k \in FirstRows(merged_data) :
                  Cardinality({<<i, j>> \in (DOMAIN result.index) \X (1..(n - 1)) :
                      /\ merged_data.rows[k][x] = result.index[i]
                      /\ merged_data.rows[k][y] = result.columns[j]}) = 1

\* Three speakers with a row per ASR model each (six rows), counted as three
\* in a table of two rows and two columns of cells.
C25_Witness ==
    /\ pc = "merged"
    /\ call.op = "get_group_counts_comparison"
    /\ result.type = "crosstab"
    /\ Len(merged_data.rows) = 6
    /\ Cardinality(FilenamesOf(merged_data)) = 3
    /\ Len(result.index) = 2
    /\ Len(result.columns) = 3
    /\ {result.values[i][3] : i \in DOMAIN result.index} = {1, 2}

(***************************************************************************)
(* Claims about the frame of the analysis operations                       *)
(***************************************************************************)
AnalysisOps ==
    {"get_group_WERs", "calculate_bias", "calculate_bias_per_group",
     "get_wer_per_speaker", "get_error_description_per_group",
     "get_group_distribution", "get_group_counts_comparison", "get_group_labels"}

\* C24: in any order and repetition, no analysis operation changes the merged
\* table, the recognition output, the labeled table of the grouping or the
\* feature table, and OverallBias.compute leaves the group-WER table it is
\* given as it was (without a bias column).
C24_AnalysisChangesNoTable ==
    [][/\ (call'.op \in AnalysisOps \cup {"compute"}) =>
              /\ merged_data' = merged_data
              /\ asr_performance' = asr_performance
              /\ grouping' = grouping
              /\ data_prep' = data_prep
       /\ (call'.op = "compute") =>
              /\ error_rates_per_group' = error_rates_per_group
              /\ \A r \in Range(error_rates_per_group'.rows) :
                    DOMAIN r = {"Model", "Label", "WER"}]_vars

\* After get_wer_per_speaker has returned a table with the column
\* 'Speaker Bias', with a group-WER table kept by the caller: the merged
\* table has no such column and the kept table no bias.
C24_Witness ==
    /\ pc = "merged"
    /\ call.op = "get_wer_per_speaker"
    /\ HasColumn(result, "Speaker Bias")
    /\ Len(result.rows) >= 2
    /\ ~HasColumn(merged_data, "Speaker Bias")
    /\ error_rates_per_group.type = "ok"
    /\ \A r \in Range(error_rates_per_group.rows) : DOMAIN r = {"Model", "Label", "WER"}
    /\ Len(error_rates_per_group.rows) >= 2

(***************************************************************************)
(* Claims about the normality check                                        *)
(***************************************************************************)
\* C26: normalize_data(scaler, check_normality=True) on a table that the
\* Shapiro-Wilk test accepts (three rows or more) prints 'All features are
\* normally distributed.' exactly when the normality flag of every feature
\* is true and 'Not all features are normally distributed.' otherwise, and
\* stores the matrix that normalize_data(scaler, check_normality=False)
\* stores.
C26_ReportsWhetherAllNormal ==
    (/\ call.op = "normalize_data"
     /\ "check_normality" \in DOMAIN call
     /\ Len(data_prep.data.rows) >= 3) =>
        /\ result.type = "ok"
        /\ result.printed
              = IF \A k \in DOMAIN call.is_normal : call.is_normal[k]
                THEN "All features are normally distributed."
                ELSE "Not all features are normally distributed."
        /\ data_prep.normalized_data
              = normalize_data(data_prep, call.scaler).normalized_data

\* The failing case: three rows, both features flagged normal, and the line
\* printed under pandas 1 is 'Not all features are normally distributed.'
C26_AllNormalReportedAsNotAll ==
    /\ call.op = "normalize_data"
    /\ "check_normality" \in DOMAIN call
    /\ Len(data_prep.data.rows) = 3
    /\ call.is_normal = <<TRUE, TRUE>>
    /\ result.type = "ok"
    /\ result.printed = "Not all features are normally distributed."
    /\ data_prep.normalized_data.type = "ndarray"

(***************************************************************************)
(* Claims about the guard on the cluster sizes                             *)
(***************************************************************************)
\* The clusters of the merged table with their models.
MergedGroups(df) == {<<df.rows[i]["Model"], df.rows[i]["Cluster"]>> : i \in DOMAIN df.rows}

\* C27: bias_metric_pipeline2 returns None, with no GroupingPerformance built
\* (nothing merged, no bias computed), exactly when some cluster has fewer
\* than 10 rows; otherwise it merges and returns the overall bias, one value
\* per model.  The same steps without the guard (bias_metric_pipeline) give
\* a WER and a bias for every cluster of the merged table, of any size from
\* 1 on, whenever a row survives the join.
C27_GuardIsCallerLevel ==
    /\ (call.op = "bias_metric_pipeline2") =>
          IF \E c \in Range(call.predicted) : CountOf(call.predicted, c) < 10
          THEN /\ result.type = "None"
               /\ merged_data.type = "None"
          ELSE /\ merged_data = merge_data(grouping, asr_performance.data)
               /\ result = calculate_bias(merged_data, "Cluster", call.measure)
               /\ result.type = "ok"
               /\ {e.Model : e \in Range(result.overall_bias_per_model_df)}
                     = {merged_data.rows[i]["Model"] : i \in DOMAIN merged_data.rows}
               /\ Len(result.overall_bias_per_model_df) = Len(asr_models)
    /\ (call.op = "bias_metric_pipeline" /\ merged_data.rows # <<>>) =>
          /\ result.type = "ok"
          /\ {<<r.Model, r.Label>> : r \in Range(result.bias_df)}
                = MergedGroups(merged_data)
          /\ \A r \in Range(result.bias_df) : IsFinite(r.WER)
          /\ Len(result.overall_bias_per_model_df) = Len(asr_models)

\* The boundary: clusters of exactly 10 and of 11 rows pass the guard, and a
\* bias per model is returned.
C27_Witness ==
    /\ call.op = "bias_metric_pipeline2"
    /\ CountOf(call.predicted, Int_(0)) = 10
    /\ CountOf(call.predicted, Int_(1)) = 11
    /\ result.type = "ok"
    /\ Len(result.overall_bias_per_model_df) = 2
    /\ Len(merged_data.rows) >= 40

\* The guard refuses clusters of 9 and 12 rows; without the guard a cluster of
\* one row gets its bias.
C27_Refused ==
    /\ call.op = "bias_metric_pipeline2"
    /\ CountOf(call.predicted, Int_(0)) = 9
    /\ CountOf(call.predicted, Int_(1)) = 12
    /\ result.type = "None"
    /\ merged_data.type = "None"

C27_SingleRowCluster ==
    /\ call.op = "bias_metric_pipeline"
    /\ CountOf(call.predicted, Int_(1)) = 1
    /\ result.type = "ok"
    /\ \E r \in Range(result.bias_df) : r.Label = Int_(1) /\ IsFinite(r.Bias)

(***************************************************************************)
(* Claims about models whose groups all have the same WER                  *)
(***************************************************************************)
\* The models of the input whose groups all have one WER.
TiedModels ==
    {m \in {r.Model : r \in Range(error_rates_per_group)} :
        \A i, j \in RowsOfModel(error_rates_per_group, m) :
            error_rates_per_group[i].WER = error_rates_per_group[j].WER}

\* C28: for a model whose groups all have the same WER (a single group
\* included), compute returns without error, the overall bias of the model
\* is NaN (the mean of no value) under either measure, and the per-group
\* table lists every group of the model, with the bias 0 under the
\* Difference measure.
C28_AllTiedGivesNaN ==
    (pc = "done") =>
        \A m \in TiedModels :
            /\ result.type = "ok"
            /\ OverallOf(m) = {[Model |-> m, Value |-> NaN]}
            /\ Cardinality(RowsOfModel(result.bias_df, m))
                  = Cardinality(RowsOfModel(error_rates_per_group, m))
            /\ (bias_measure = "DiffBias") =>
                  \A i \in RowsOfModel(result.bias_df, m) :
                      result.bias_df[i].Bias = FromInt(0)

\* One model with three groups at WER 10 and one model with a single group,
\* under the Difference measure: both overall values are NaN, every bias is 0.
C28_Witness ==
    /\ pc = "done"
    /\ bias_measure = "DiffBias"
    /\ result.type = "ok"
    /\ Column(GroupOf(error_rates_per_group, M1), "WER")
          = <<FromInt(10), FromInt(10), FromInt(10)>>
    /\ Len(GroupOf(error_rates_per_group, M2)) = 1
    /\ TiedModels = {M1, M2}
    /\ \A e \in Range(result.overall_bias_per_model_df) : IsNaN(e.Value)
    /\ \A r \in Range(result.bias_df) : r.Bias = FromInt(0)

(***************************************************************************)
(* Claims about the demographic labels of bias_metric_pipeline             *)
(***************************************************************************)
\* The demographic groups that the recognition output holds for a recording.
GroupsOfRecording(name) ==
    {asr_performance.data.rows[i]["Group"] :
        i \in {j \in DOMAIN asr_performance.data.rows :
                  asr_performance.data.rows[j]["Filename"] = name}}

\* C29: the label list that bias_metric_pipeline hands to PredefinedGrouping
\* has one label per row of the feature table (so the grouping is built), and
\* its i-th label is the demographic group of the speaker of the i-th row.
C29_LabelsAlignedWithRows ==
    (call.op = "PredefinedGrouping") =>
        /\ Len(call.group_labels) = Len(data_prep.data.rows)
        /\ result = Ok
        /\ \A i \in DOMAIN data_prep.data.rows :
              GroupsOfRecording(data_prep.data.rows[i]["Filename"])
                  = {call.group_labels[i]}

\* A failing case: every recording of the feature source is in the
\* recognition output and the grouping is built, but a row carries the
\* demographic group of another speaker.
C29_SilentlyMisaligned ==
    /\ call.op = "PredefinedGrouping"
    /\ result = Ok
    /\ grouping.type = "PredefinedGrouping"
    /\ Len(data_prep.data.rows) = 2
    /\ \A i \in DOMAIN data_prep.data.rows :
          /\ GroupsOfRecording(data_prep.data.rows[i]["Filename"]) # {}
          /\ grouping.data_with_group_labels.rows[i]["Group"]
                \notin GroupsOfRecording(data_prep.data.rows[i]["Filename"])

\* A failing case: a recording of the feature source is not in the
\* recognition output, and PredefinedGrouping raises ValueError.
C29_TooFewLabels ==
    /\ call.op = "PredefinedGrouping"
    /\ result.type = "ValueError"
    /\ Len(call.group_labels) < Len(data_prep.data.rows)
    /\ Len(call.group_labels) > 0

(***************************************************************************)
(* Claims about the speaking style an AsrPerformanceData reports           *)
(***************************************************************************)
\* C30: the speaking style an AsrPerformanceData reports is the one whose
\* data it loaded: some configured style has the id that get_speaking_style()
\* returns, the name and abbreviation of speaking_style_info, and the
\* abbreviation in the paths of the metadata file and of every error-count
\* file the object reads.
C30_ReportsLoadedStyle ==
    (call.op = "get_speaking_style") =>
        \E k \in DOMAIN filepath_manager.speaking_styles_data :
            LET style == filepath_manager.speaking_styles_data[k]
                id == asr_performance.speaking_style_id
            IN  /\ result.v = style.key
                /\ asr_performance.speaking_style_info = style.value
                /\ get_meta_path(filepath_manager, id).speaking_style
                      = style.value.abbreviation
                /\ \A g \in Range(get_speaker_groups(filepath_manager)),
                      m \in Range(get_asr_models(filepath_manager)) :
                      get_error_rate_path(filepath_manager, id, g, m).speaking_style
                          = style.value.abbreviation

\* A failing case: with read speech configured first, an object constructed
\* with the default id holds the info and the files of read speech and reports
\* the style "Unknown Style".
C30_ReportsUnknownStyle ==
    /\ call.op = "get_speaking_style"
    /\ result.v = "Unknown Style"
    /\ asr_performance.speaking_style_info.abbreviation = ReadStyle.abbreviation
    /\ get_meta_path(filepath_manager, asr_performance.speaking_style_id).speaking_style
          = ReadStyle.abbreviation

====
